---- MODULE Spec2Model ----
(***************************************************************************)
(* Vendor analytics scoring of the analytics dashboard backend             *)
(* (src/src/routes/vendorAnalytics.ts).                                    *)
(*                                                                         *)
(* Each route handler fetches aggregate rows and maps every row through a  *)
(* callback that computes the scores.  Spec follows the callback of a      *)
(* single row; SpecRequest follows one request through its awaited queries *)
(* to its response; SpecConcurrent interleaves scoring requests; SpecProxy  *)
(* follows one call of the AI proxy's makeRequest (src/unnamed/part_001).  *)
(*                                                                         *)
(* JavaScript numbers are modelled as exact rationals [n, d] in lowest     *)
(* terms with d > 0, extended by +Infinity [1, 0], -Infinity [-1, 0] and   *)
(* NaN [0, 0], so that a division by zero is a value the checks can see.   *)
(* The arithmetic is exact: a double can differ from it in the last bit,   *)
(* which shows only where a rounded value sits exactly on a .5 tie.        *)
(***************************************************************************)
EXTENDS Integers, Sequences, FiniteSets, TLC

\* the callback of one row: the route, its parameter, the row, the locals, the result
VARIABLES pc, endpoint, timeframe, vendor, spendingTrends, locals, entry

\* one request from arrival to response: the handler's position, the route,
\* req.query, the data source (the ordered qualifying rows of a scorecard
\* query, the monthly invoice totals for the trend queries), the results of
\* the awaited queries, the responses sent, and two records of what happened:
\* the invoice totals the second trend query read and whether a query rejected
VARIABLES stage, route, query, qualifying, invoices, fetched, trendRows,
          responses, writes, snapshot, rejected

\* concurrent scoring requests, each with its own position, rows and response
VARIABLES sessions

\* one call of VannaProxyService.makeRequest
VARIABLES proxy

\* one POST /chat/batch request
VARIABLES batch

\* the chat tables (ChatSession, ChatQuery) and the chat requests in progress
VARIABLES chat

\* one GET /invoices request
VARIABLES listing

\* one GET /cash-outflow request
VARIABLES outflow

rowVars == <<pc, endpoint, timeframe, vendor, spendingTrends, locals, entry>>

requestVars == <<stage, route, query, qualifying, invoices, fetched, trendRows,
                 responses, writes, snapshot, rejected>>

analyticsVars == <<rowVars, requestVars, sessions>>

serviceVars == <<batch, chat, listing, outflow>>

vars == <<rowVars, requestVars, sessions, proxy, serviceVars>>

(***************************************************************************)
(* Bounds of the model.                                                    *)
(***************************************************************************)
MaxPaymentRecords == 8
MaxInvoices == 10
MaxPoints == 7

(***************************************************************************)
(* JavaScript numbers.                                                     *)
(***************************************************************************)
Abs(x) == IF x < 0 THEN -x ELSE x

RECURSIVE GCD(_, _)
GCD(a, b) == IF b = 0 THEN a ELSE GCD(b, a % b)

NaN == [n |-> 0, d |-> 0]
PosInf == [n |-> 1, d |-> 0]
NegInf == [n |-> -1, d |-> 0]

\* the number p/q in lowest terms (q /= 0)
Rat(p, q) ==
    LET g == GCD(Abs(p), Abs(q))
        s == IF q < 0 THEN -1 ELSE 1
    IN [n |-> (s * p) \div g, d |-> (s * q) \div g]

Num(k) == [n |-> k, d |-> 1]

IsNaN(x) == x = NaN
IsFinite(x) == x.d > 0
IsInteger(x) == x.d = 1
Sign(x) == IF x.n > 0 THEN 1 ELSE IF x.n < 0 THEN -1 ELSE 0
SignedInf(s) == IF s > 0 THEN PosInf ELSE NegInf

\* a < b; every comparison with NaN is false
Lt(a, b) ==
    IF IsNaN(a) \/ IsNaN(b) THEN FALSE
    ELSE IF a = b THEN FALSE
    ELSE IF a = NegInf \/ b = PosInf THEN TRUE
    ELSE IF a = PosInf \/ b = NegInf THEN FALSE
    ELSE a.n * b.d < b.n * a.d

Gt(a, b) == Lt(b, a)
Le(a, b) == Lt(a, b) \/ (a = b /\ ~IsNaN(a))

Neg(a) == [n |-> -a.n, d |-> a.d]

Add(a, b) ==
    IF IsNaN(a) \/ IsNaN(b) THEN NaN
    ELSE IF ~IsFinite(a) THEN (IF ~IsFinite(b) /\ a # b THEN NaN ELSE a)
    ELSE IF ~IsFinite(b) THEN b
    ELSE Rat(a.n * b.d + b.n * a.d, a.d * b.d)

Sub(a, b) == Add(a, Neg(b))

Mul(a, b) ==
    IF IsNaN(a) \/ IsNaN(b) THEN NaN
    ELSE IF ~IsFinite(a) \/ ~IsFinite(b)
         THEN (IF Sign(a) * Sign(b) = 0 THEN NaN ELSE SignedInf(Sign(a) * Sign(b)))
    ELSE Rat(a.n * b.n, a.d * b.d)

\* a / b: x / 0 is an infinity, 0 / 0 and Infinity / Infinity are NaN
Div(a, b) ==
    IF IsNaN(a) \/ IsNaN(b) THEN NaN
    ELSE IF ~IsFinite(a) THEN (IF ~IsFinite(b) THEN NaN
                               ELSE SignedInf(Sign(a) * (IF Sign(b) < 0 THEN -1 ELSE 1)))
    ELSE IF ~IsFinite(b) THEN Num(0)
    ELSE IF b.n = 0 THEN (IF a.n = 0 THEN NaN ELSE SignedInf(Sign(a)))
    ELSE Rat(a.n * b.d, a.d * b.n)

\* Math.min and Math.max: NaN if an argument is NaN
MathMin(a, b) == IF IsNaN(a) \/ IsNaN(b) THEN NaN ELSE IF Lt(b, a) THEN b ELSE a
MathMax(a, b) == IF IsNaN(a) \/ IsNaN(b) THEN NaN ELSE IF Lt(a, b) THEN b ELSE a

\* Math.round: floor(x + 1/2), ties go up
MathRound(x) == IF ~IsFinite(x) THEN x ELSE Num((2 * x.n + x.d) \div (2 * x.d))

\* Math.round(x * 100) / 100
Round2(x) == Div(MathRound(Mul(x, Num(100))), Num(100))

(***************************************************************************)
(* Values of the aggregate rows.  A ::decimal column arrives as a decimal  *)
(* [units, scale] standing for units / scale; arithmetic on it and         *)
(* parseFloat convert it to a number.  An ::int column is a number.        *)
(***************************************************************************)
Dec(u, s) == [units |-> u, scale |-> s]

ToNumber(dec) == Rat(dec.units, dec.scale)

parseFloat(dec) == ToNumber(dec)

(***************************************************************************)
(* parseInt of a query-string value, given as its sequence of characters:  *)
(* an optional sign, then the longest prefix of decimal digits; NaN when   *)
(* there is no digit.                                                      *)
(***************************************************************************)
DigitVal == ("0" :> 0) @@ ("1" :> 1) @@ ("2" :> 2) @@ ("3" :> 3) @@ ("4" :> 4) @@
            ("5" :> 5) @@ ("6" :> 6) @@ ("7" :> 7) @@ ("8" :> 8) @@ ("9" :> 9)

IsDigit(c) == c \in DOMAIN DigitVal

RECURSIVE ParseDigits(_, _, _)
ParseDigits(s, i, acc) ==
    IF i > Len(s) \/ ~IsDigit(s[i]) THEN acc
    ELSE ParseDigits(s, i + 1, 10 * acc + DigitVal[s[i]])

parseInt(s) ==
    LET signed == Len(s) >= 1 /\ s[1] \in {"-", "+"}
        first == IF signed THEN 2 ELSE 1
        mag == ParseDigits(s, first, 0)
    IN IF first > Len(s) \/ ~IsDigit(s[first]) THEN NaN
       ELSE IF signed /\ s[1] = "-" THEN Num(-mag) ELSE Num(mag)

\* const { timeframe = '12' } = req.query
DefaultTimeframe == <<"1", "2">>

(***************************************************************************)
(* GET /performance-scorecard: the callback of vendorPerformance.map       *)
(***************************************************************************)
\* variant: the Math.min(100, ...) clamp left out
consistencyScoreUnclamped(v, tf) ==
    Mul(Div(Num(v.active_months), parseInt(tf)), Num(100))

consistencyScore(v, tf) ==
    MathMin(Num(100), Mul(Div(Num(v.active_months), parseInt(tf)), Num(100)))

volumeScore(v) ==
    MathMin(Num(100), Mul(Div(Num(v.invoice_count), Num(50)), Num(100)))

\* variant: clamped above like the other sub-scores
reliabilityScoreClamped(v) ==
    IF Gt(ToNumber(v.avg_payment_terms), Num(0))
    THEN MathMin(Num(100), MathMax(Num(0), Sub(Num(100), Sub(ToNumber(v.avg_payment_terms), Num(30)))))
    ELSE Num(50)

reliabilityScore(v) ==
    IF Gt(ToNumber(v.avg_payment_terms), Num(0))
    THEN MathMax(Num(0), Sub(Num(100), Sub(ToNumber(v.avg_payment_terms), Num(30))))
    ELSE Num(50)

\* variant: the mean taken over the rounded sub-scores
overallScoreOfRounded(c, vol, r) ==
    MathRound(Div(Add(Add(MathRound(c), MathRound(vol)), MathRound(r)), Num(3)))

overallScore(c, vol, r) == MathRound(Div(Add(Add(c, vol), r), Num(3)))

PerformanceLocals(v, tf) ==
    LET c == consistencyScore(v, tf)
        vol == volumeScore(v)
        r == reliabilityScore(v)
    IN [consistencyScore |-> c, volumeScore |-> vol, reliabilityScore |-> r,
        overallScore |-> overallScore(c, vol, r)]

scorecardData(v, l) ==
    [invoiceCount |-> v.invoice_count,
     activeMonths |-> v.active_months,
     avgPaymentTerms |-> parseFloat(v.avg_payment_terms),
     performanceScore |->
        [overall |-> l.overallScore,
         consistency |-> MathRound(l.consistencyScore),
         volume |-> MathRound(l.volumeScore),
         reliability |-> MathRound(l.reliabilityScore)]]

(***************************************************************************)
(* Rows the performance query can return: HAVING COUNT(i.id) > 0, and the  *)
(* distinct months of the invoices are at most as many as the invoices.    *)
(***************************************************************************)
InvoiceCounts == {1, 25, 45, 50, 60}
ActiveMonths == {1, 6, 8, 12, 13}
\* average days between invoice date and due date, in tenths of a day
PaymentTermsTenths == {-50, 0, 5, 10, 295, 300, 305, 1000, 1295, 1300, 1305, 2000}

PerformanceRows ==
    {r \in {[invoice_count |-> ic, active_months |-> am, avg_payment_terms |-> Dec(u, 10)] :
                ic \in InvoiceCounts, am \in ActiveMonths, u \in PaymentTermsTenths} :
        r.active_months <= r.invoice_count}

Timeframes == {DefaultTimeframe, <<"6">>, <<"1">>, <<"0">>, <<"2", "4">>,
               <<"-", "3">>, <<"a", "l", "l">>, <<"1", "2", "m">>}

(***************************************************************************)
(* GET /payment-reliability: the callback of paymentReliability.map        *)
(***************************************************************************)
paymentOverdueRate(v) ==
    IF v.payment_records > 0
    THEN Mul(Div(Num(v.overdue_count), Num(v.payment_records)), Num(100))
    ELSE Num(0)

discountUtilization(v) ==
    IF v.payment_records > 0
    THEN Mul(Div(Num(v.discount_eligible), Num(v.payment_records)), Num(100))
    ELSE Num(0)

\* variant: the Math.max(0, ...) clamp left out
paymentReliabilityScoreUnclamped(rate) == Sub(Num(100), Mul(rate, Num(2)))

paymentReliabilityScore(rate) == MathMax(Num(0), Sub(Num(100), Mul(rate, Num(2))))

ReliabilityLocals(v) ==
    LET rate == paymentOverdueRate(v)
    IN [overdueRate |-> rate,
        discountUtilization |-> discountUtilization(v),
        reliabilityScore |-> paymentReliabilityScore(rate)]

reliabilityData(v, l) ==
    [paymentRecords |-> v.payment_records,
     overdueCount |-> v.overdue_count,
     overdueRate |-> Round2(l.overdueRate),
     discountEligible |-> v.discount_eligible,
     discountUtilization |-> Round2(l.discountUtilization),
     reliabilityScore |-> MathRound(l.reliabilityScore)]

\* rows of the payment query: HAVING COUNT(p.id) > 0, the two conditional
\* counts count some of the same payments
PaymentRows ==
    {r \in [payment_records : 1..MaxPaymentRecords,
            overdue_count : 0..MaxPaymentRecords,
            discount_eligible : 0..MaxPaymentRecords] :
        r.overdue_count <= r.payment_records /\ r.discount_eligible <= r.payment_records}

(***************************************************************************)
(* GET /risk-assessment: the callback of riskAssessment.map                *)
(***************************************************************************)
lateInvoiceRate(v) ==
    IF v.total_invoices > 0
    THEN Mul(Div(Num(v.late_invoices), Num(v.total_invoices)), Num(100))
    ELSE Num(0)

riskOverdueRate(v) ==
    IF v.total_invoices > 0
    THEN Mul(Div(Num(v.overdue_payments), Num(v.total_invoices)), Num(100))
    ELSE Num(0)

exposureRisk(totalExposure) ==
    MathMin(Num(100), Mul(Div(totalExposure, Num(1000000)), Num(100)))

variabilityRisk(invoiceVariability, avgInvoiceValue) ==
    IF Gt(avgInvoiceValue, Num(0))
    THEN MathMin(Num(100), Mul(Div(invoiceVariability, avgInvoiceValue), Num(100)))
    ELSE Num(0)

timelinessRisk(lateRate) == MathMin(Num(100), Mul(lateRate, Num(2)))

\* variant: the Math.min(100, ...) clamp left out
paymentRiskUnclamped(overdueRate) == Mul(overdueRate, Num(3))

paymentRisk(overdueRate) == MathMin(Num(100), Mul(overdueRate, Num(3)))

\* variant: half of the weight on the exposure risk
overallRiskHeavyExposure(e, var, t, p) ==
    MathRound(Add(Add(Add(Mul(e, Rat(5, 10)), Mul(var, Rat(2, 10))),
                      Mul(t, Rat(15, 100))), Mul(p, Rat(15, 100))))

overallRisk(e, var, t, p) ==
    MathRound(Add(Add(Add(Mul(e, Rat(3, 10)), Mul(var, Rat(2, 10))),
                      Mul(t, Rat(25, 100))), Mul(p, Rat(25, 100))))

\* variant: the thresholds compared with >=
riskCategoryInclusive(overall) ==
    IF Le(Num(70), overall) THEN "High"
    ELSE IF Le(Num(40), overall) THEN "Medium"
    ELSE "Low"

riskCategory(overall) ==
    IF Gt(overall, Num(70)) THEN "High"
    ELSE IF Gt(overall, Num(40)) THEN "Medium"
    ELSE "Low"

RiskLocals(v) ==
    LET totalExposure == parseFloat(v.total_exposure)
        avgInvoiceValue == parseFloat(v.avg_invoice_value)
        invoiceVariability == parseFloat(v.invoice_variability)
        lateRate == lateInvoiceRate(v)
        overdueRate == riskOverdueRate(v)
        e == exposureRisk(totalExposure)
        var == variabilityRisk(invoiceVariability, avgInvoiceValue)
        t == timelinessRisk(lateRate)
        p == paymentRisk(overdueRate)
        overall == overallRisk(e, var, t, p)
    IN [totalExposure |-> totalExposure,
        avgInvoiceValue |-> avgInvoiceValue,
        invoiceVariability |-> invoiceVariability,
        lateInvoiceRate |-> lateRate,
        overdueRate |-> overdueRate,
        exposureRisk |-> e,
        variabilityRisk |-> var,
        timelinessRisk |-> t,
        paymentRisk |-> p,
        overallRisk |-> overall,
        riskCategory |-> riskCategory(overall)]

riskData(v, l) ==
    [totalInvoices |-> v.total_invoices,
     totalExposure |-> l.totalExposure,
     avgInvoiceValue |-> l.avgInvoiceValue,
     invoiceVariability |-> l.invoiceVariability,
     lateInvoices |-> v.late_invoices,
     lateInvoiceRate |-> Round2(l.lateInvoiceRate),
     overduePayments |-> v.overdue_payments,
     overdueRate |-> Round2(l.overdueRate),
     riskScores |->
        [overall |-> l.overallRisk,
         exposure |-> MathRound(l.exposureRisk),
         variability |-> MathRound(l.variabilityRisk),
         timeliness |-> MathRound(l.timelinessRisk),
         payment |-> MathRound(l.paymentRisk)],
     riskCategory |-> l.riskCategory]

(***************************************************************************)
(* Rows of the risk query: HAVING COUNT(i.id) > 0; AVG is SUM / COUNT;     *)
(* STDDEV is a tenth-multiple of the size of the average, and 0 for a      *)
(* single invoice; the conditional counts are at most the row count.       *)
(***************************************************************************)
Exposures == {-500000, 0, 250000, 500000, 1000000, 2000000}
VariationTenths == {0, 3, 5, 8, 10, 15}

RiskRow(ti, ex, cv, late, over) ==
    [total_invoices |-> ti,
     total_exposure |-> Dec(ex, 1),
     avg_invoice_value |-> Dec(ex, ti),
     invoice_variability |-> Dec(cv * (IF ex = 0 THEN 1000 ELSE Abs(ex)), 10 * ti),
     late_invoices |-> late,
     overdue_payments |-> over]

RiskRows ==
    {RiskRow(c[1], c[2], c[3], c[4], c[5]) :
        c \in {x \in (1..MaxInvoices) \X Exposures \X VariationTenths
                        \X (0..MaxInvoices) \X (0..MaxInvoices) :
                  /\ x[4] <= x[1]
                  /\ x[5] <= x[1]
                  /\ (x[1] = 1 => x[3] = 0)}}

(***************************************************************************)
(* GET /spending-trends: the records of one vendor name are grouped        *)
(* (spendingTrends.reduce) and the group is mapped to its trend entry.     *)
(***************************************************************************)
RECURSIVE SumSpend(_)
SumSpend(ts) ==
    IF ts = <<>> THEN Num(0) ELSE Add(SumSpend(SubSeq(ts, 1, Len(ts) - 1)), ts[Len(ts)].monthlySpend)

\* variant: counting the points instead of adding their invoice counts
SumInvoicesCountingPoints(ts) == Len(ts)

RECURSIVE SumInvoices(_)
SumInvoices(ts) ==
    IF ts = <<>> THEN 0 ELSE SumInvoices(SubSeq(ts, 1, Len(ts) - 1)) + ts[Len(ts)].invoiceCount

\* acc[vendorName].push({...}) for each record of the vendor name
trendsByVendor(records) ==
    [i \in 1..Len(records) |->
        [month |-> records[i].month,
         invoiceCount |-> records[i].invoice_count,
         monthlySpend |-> parseFloat(records[i].monthly_spend),
         avgInvoiceValue |-> parseFloat(records[i].avg_invoice_value)]]

\* Array.prototype.sort with (a, b) => a.month - b.month: stable, ascending
RECURSIVE InsertByMonth(_, _)
InsertByMonth(sorted, t) ==
    IF sorted = <<>> THEN <<t>>
    ELSE IF sorted[Len(sorted)].month <= t.month THEN Append(sorted, t)
    ELSE Append(InsertByMonth(SubSeq(sorted, 1, Len(sorted) - 1), t), sorted[Len(sorted)])

RECURSIVE SortByMonth(_)
SortByMonth(ts) ==
    IF ts = <<>> THEN <<>>
    ELSE InsertByMonth(SortByMonth(SubSeq(ts, 1, Len(ts) - 1)), ts[Len(ts)])

\* Array.prototype.slice(b, e) with negative indices counted from the end
SliceIndex(len, k) == IF k < 0 THEN (IF len + k < 0 THEN 0 ELSE len + k)
                      ELSE (IF k > len THEN len ELSE k)

Slice(s, b, e) == SubSeq(s, SliceIndex(Len(s), b) + 1, SliceIndex(Len(s), e))

recent(sortedTrends) == Slice(sortedTrends, -3, Len(sortedTrends))

\* variant: the previous window reaching one point into the recent one
previousOverlapping(sortedTrends) == Slice(sortedTrends, -6, -2)

previous(sortedTrends) == Slice(sortedTrends, -6, -3)

recentAvg(rec) == Div(SumSpend(rec), Num(Len(rec)))

previousAvg(prev, rAvg) ==
    IF Len(prev) > 0 THEN Div(SumSpend(prev), Num(Len(prev))) ELSE rAvg

\* variant: the previousAvg > 0 guard left out
growthRateUnguarded(rAvg, pAvg) == Mul(Div(Sub(rAvg, pAvg), pAvg), Num(100))

growthRate(rAvg, pAvg) ==
    IF Gt(pAvg, Num(0)) THEN Mul(Div(Sub(rAvg, pAvg), pAvg), Num(100)) ELSE Num(0)

TrendLocals(records) ==
    LET ts == trendsByVendor(records)
        sortedTrends == SortByMonth(ts)
        totalSpend == SumSpend(sortedTrends)
        rec == recent(sortedTrends)
        prev == previous(sortedTrends)
        rAvg == recentAvg(rec)
        pAvg == previousAvg(prev, rAvg)
    IN [sortedTrends |-> sortedTrends,
        totalSpend |-> totalSpend,
        avgMonthlySpend |-> Div(totalSpend, Num(Len(sortedTrends))),
        recent |-> rec,
        previous |-> prev,
        recentAvg |-> rAvg,
        previousAvg |-> pAvg,
        growthRate |-> growthRate(rAvg, pAvg)]

trendsData(l) ==
    [trends |-> l.sortedTrends,
     summary |->
        [totalSpend |-> l.totalSpend,
         avgMonthlySpend |-> Round2(l.avgMonthlySpend),
         growthRate |-> Round2(l.growthRate),
         activeMonths |-> Len(l.sortedTrends),
         totalInvoices |-> SumInvoices(l.sortedTrends)]]

(***************************************************************************)
(* Records of one vendor in the trend query: one per month, ORDER BY       *)
(* month DESC, each with its invoice count and the sum of its invoices.    *)
(***************************************************************************)
MonthTotals == {<<1, -100>>, <<2, 0>>, <<1, 100>>, <<3, 300>>}

TrendRecord(m, mt) ==
    [month |-> m,
     invoice_count |-> mt[1],
     monthly_spend |-> Dec(mt[2] * 100, 100),
     avg_invoice_value |-> Dec(mt[2] * 100, mt[1] * 100)]

TrendRecords(n) ==
    {[i \in 1..n |-> TrendRecord(n + 1 - i, f[i])] : f \in [1..n -> MonthTotals]}

(***************************************************************************)
(* The data source of the request-level model.                             *)
(***************************************************************************)
VendorIds == {"v1", "v2", "v3"}

\* "Vendor"."vendorName" carries no unique constraint
vendorNameOf == [v \in VendorIds |-> IF v = "v3" THEN "Bolt" ELSE "Acme"]

TrendMonths == {1, 2}

\* the sum of a vendor's invoice totals in a month; 0 where there is no invoice
Amounts == {0, 1}

NoInvoices == [v \in VendorIds |-> [m \in TrendMonths |-> 0]]

Requests == {"r1", "r2"}

IdleSession == [pc |-> "idle"]

Unused == <<>>

(***************************************************************************)
(* One request is followed from its arrival to its response: the handler   *)
(* awaits the aggregate query (pc "fetched": the row is in hand), then     *)
(* maps the row and sends the response (pc "responded").  The handlers     *)
(* keep nothing between requests.                                          *)
(***************************************************************************)
RowIdle ==
    /\ pc = "idle"
    /\ endpoint = "none"
    /\ timeframe = Unused
    /\ vendor = Unused
    /\ spendingTrends = Unused
    /\ locals = Unused
    /\ entry = Unused

RequestIdle ==
    /\ stage = "idle"
    /\ route = "none"
    /\ query = Unused
    /\ qualifying = <<>>
    /\ invoices = NoInvoices
    /\ fetched = Unused
    /\ trendRows = Unused
    /\ responses = <<>>
    /\ writes = 0
    /\ snapshot = Unused
    /\ rejected = FALSE

SessionsIdle == sessions = [r \in Requests |-> IdleSession]

ProxyIdle == proxy = Unused

ServicesIdle == batch = Unused /\ chat = Unused /\ listing = Unused /\ outflow = Unused

Init == RowIdle /\ RequestIdle /\ SessionsIdle /\ ProxyIdle /\ ServicesIdle

\* const { timeframe = '12' } = req.query; await prisma.$queryRaw
FetchPerformance ==
    /\ pc = "idle"
    /\ \E tf \in Timeframes, v \in PerformanceRows :
        /\ timeframe' = tf
        /\ vendor' = v
    /\ endpoint' = "performance-scorecard"
    /\ pc' = "fetched"
    /\ UNCHANGED <<spendingTrends, locals, entry>>
    /\ UNCHANGED <<requestVars, sessions, proxy, serviceVars>>

\* vendorPerformance.map(...) and res.json
PerformanceScorecard ==
    /\ pc = "fetched"
    /\ endpoint = "performance-scorecard"
    /\ locals' = PerformanceLocals(vendor, timeframe)
    /\ entry' = scorecardData(vendor, locals')
    /\ pc' = "responded"
    /\ UNCHANGED <<endpoint, timeframe, vendor, spendingTrends>>
    /\ UNCHANGED <<requestVars, sessions, proxy, serviceVars>>

FetchReliability ==
    /\ pc = "idle"
    /\ \E v \in PaymentRows : vendor' = v
    /\ endpoint' = "payment-reliability"
    /\ pc' = "fetched"
    /\ UNCHANGED <<timeframe, spendingTrends, locals, entry>>
    /\ UNCHANGED <<requestVars, sessions, proxy, serviceVars>>

\* paymentReliability.map(...) and res.json
PaymentReliability ==
    /\ pc = "fetched"
    /\ endpoint = "payment-reliability"
    /\ locals' = ReliabilityLocals(vendor)
    /\ entry' = reliabilityData(vendor, locals')
    /\ pc' = "responded"
    /\ UNCHANGED <<endpoint, timeframe, vendor, spendingTrends>>
    /\ UNCHANGED <<requestVars, sessions, proxy, serviceVars>>

FetchRisk ==
    /\ pc = "idle"
    /\ \E v \in RiskRows : vendor' = v
    /\ endpoint' = "risk-assessment"
    /\ pc' = "fetched"
    /\ UNCHANGED <<timeframe, spendingTrends, locals, entry>>
    /\ UNCHANGED <<requestVars, sessions, proxy, serviceVars>>

\* riskAssessment.map(...) and res.json
RiskAssessment ==
    /\ pc = "fetched"
    /\ endpoint = "risk-assessment"
    /\ locals' = RiskLocals(vendor)
    /\ entry' = riskData(vendor, locals')
    /\ pc' = "responded"
    /\ UNCHANGED <<endpoint, timeframe, vendor, spendingTrends>>
    /\ UNCHANGED <<requestVars, sessions, proxy, serviceVars>>

FetchTrends ==
    /\ pc = "idle"
    /\ \E n \in 1..MaxPoints : \E records \in TrendRecords(n) : spendingTrends' = records
    /\ endpoint' = "spending-trends"
    /\ pc' = "fetched"
    /\ UNCHANGED <<timeframe, vendor, locals, entry>>
    /\ UNCHANGED <<requestVars, sessions, proxy, serviceVars>>

\* spendingTrends.reduce(...), Object.entries(trendsByVendor).map(...) and res.json
SpendingTrends ==
    /\ pc = "fetched"
    /\ endpoint = "spending-trends"
    /\ locals' = TrendLocals(spendingTrends)
    /\ entry' = trendsData(locals')
    /\ pc' = "responded"
    /\ UNCHANGED <<endpoint, timeframe, vendor, spendingTrends>>
    /\ UNCHANGED <<requestVars, sessions, proxy, serviceVars>>

Next ==
    \/ FetchPerformance
    \/ PerformanceScorecard
    \/ FetchReliability
    \/ PaymentReliability
    \/ FetchRisk
    \/ RiskAssessment
    \/ FetchTrends
    \/ SpendingTrends

Spec == Init /\ [][Next]_vars

(***************************************************************************)
(* The handlers at request level: a request arrives, its queries are       *)
(* awaited one after the other and exactly one response is sent.  A query  *)
(* may reject (the database is unreachable, or PostgreSQL refuses the      *)
(* statement); the catch block then answers with status 500.               *)
(***************************************************************************)
MaxVendors == 3

Routes == {"performance-scorecard", "payment-reliability", "spending-trends",
           "risk-assessment"}

Scorecards == Routes \ {"spending-trends"}

VendorNames == <<"Acme", "Bolt", "Cord", "Dyna">>

\* rows of the performance query in its order (total_spend DESC)
PerformanceSamples ==
    <<[invoice_count |-> 50, active_months |-> 12, avg_payment_terms |-> Dec(300, 10)],
      [invoice_count |-> 25, active_months |-> 6, avg_payment_terms |-> Dec(1000, 10)],
      [invoice_count |-> 1, active_months |-> 1, avg_payment_terms |-> Dec(0, 10)],
      [invoice_count |-> 1, active_months |-> 1, avg_payment_terms |-> Dec(295, 10)]>>

\* rows of the payment query in its order (payment_records DESC)
PaymentSamples ==
    <<[payment_records |-> 8, overdue_count |-> 0, discount_eligible |-> 4],
      [payment_records |-> 6, overdue_count |-> 3, discount_eligible |-> 0],
      [payment_records |-> 3, overdue_count |-> 1, discount_eligible |-> 3],
      [payment_records |-> 1, overdue_count |-> 1, discount_eligible |-> 0]>>

\* rows of the risk query in its order (total_exposure DESC)
RiskSamples ==
    <<RiskRow(10, 2000000, 10, 10, 10),
      RiskRow(10, 1000000, 10, 0, 0),
      RiskRow(1, 250000, 0, 0, 0),
      RiskRow(2, 0, 0, 1, 0)>>

SampleRow(rt, i) ==
    LET k == ((i - 1) % 4) + 1
        row == CASE rt = "performance-scorecard" -> PerformanceSamples[k]
                 [] rt = "payment-reliability" -> PaymentSamples[k]
                 [] OTHER -> RiskSamples[k]
    IN [vendorName |-> VendorNames[k]] @@ row

\* the vendors of S that satisfy the query's HAVING clause, in its ORDER BY
QualifyingRows(rt, S) ==
    LET idx == SelectSeq([i \in 1..MaxVendors |-> i], LAMBDA i : i \in S)
    IN [j \in 1..Len(idx) |-> SampleRow(rt, idx[j])]

\* const { limit = 20 } = req.query (15 for payment-reliability, topVendors
\* = 10 for spending-trends)
DefaultLimit(rt) ==
    CASE rt = "payment-reliability" -> <<"1", "5">>
      [] rt = "spending-trends" -> <<"1", "0">>
      [] OTHER -> <<"2", "0">>

Limits(rt) == {DefaultLimit(rt), <<"0">>, <<"1">>, <<"2">>, <<"-", "1">>}

\* PostgreSQL: LIMIT takes a non-negative count ("LIMIT must not be negative")
LimitAccepted(n) == IsInteger(n) /\ ~Lt(n, Num(0))

\* ... LIMIT n: the first n rows of the ordered result
SqlLimit(rows, n) ==
    SubSeq(rows, 1, IF n.n < Len(rows) THEN n.n ELSE Len(rows))

MonthsSuffix == <<" ", "m", "o", "n", "t", "h", "s">>

NegativeLimitError == "LIMIT must not be negative"
ConnectionError == "Can't reach database server"

\* error.message || 'Failed to get ... data'
failureText(rt, message) ==
    IF message # "" THEN message
    ELSE CASE rt = "performance-scorecard" -> "Failed to get vendor performance data"
           [] rt = "payment-reliability" -> "Failed to get payment reliability data"
           [] rt = "spending-trends" -> "Failed to get spending trends data"
           [] OTHER -> "Failed to get risk assessment data"

\* new Date().toISOString()
Timestamp == "toISOString"

successResponse(data, metadata) ==
    [status |-> 200,
     body |-> [success |-> TRUE, data |-> data,
               metadata |-> metadata @@ [timestamp |-> Timestamp]]]

\* variant: the failure response carries an empty data array
errorResponseWithData(rt, message) ==
    [status |-> 500,
     body |-> [success |-> FALSE, error |-> failureText(rt, message), data |-> <<>>,
               timestamp |-> Timestamp]]

errorResponse(rt, message) ==
    [status |-> 500,
     body |-> [success |-> FALSE, error |-> failureText(rt, message),
               timestamp |-> Timestamp]]

performanceResponse(rows, q) ==
    LET data == [i \in 1..Len(rows) |->
                    [vendorName |-> rows[i].vendorName]
                        @@ scorecardData(rows[i], PerformanceLocals(rows[i], q.timeframe))]
    IN successResponse(data, [timeframe |-> q.timeframe \o MonthsSuffix,
                              totalVendors |-> Len(data)])

reliabilityResponse(rows) ==
    LET data == [i \in 1..Len(rows) |->
                    [vendorName |-> rows[i].vendorName]
                        @@ reliabilityData(rows[i], ReliabilityLocals(rows[i]))]
    IN successResponse(data, [totalVendors |-> Len(data)])

\* variant: every vendor that is not High is counted as Low
riskDistributionTwoWay(data) ==
    [high |-> Cardinality({i \in DOMAIN data : data[i].riskCategory = "High"}),
     medium |-> 0,
     low |-> Cardinality({i \in DOMAIN data : data[i].riskCategory # "High"})]

\* riskData.filter(v => v.riskCategory === ...).length
riskDistribution(data) ==
    [high |-> Cardinality({i \in DOMAIN data : data[i].riskCategory = "High"}),
     medium |-> Cardinality({i \in DOMAIN data : data[i].riskCategory = "Medium"}),
     low |-> Cardinality({i \in DOMAIN data : data[i].riskCategory = "Low"})]

riskResponse(rows) ==
    LET data == [i \in 1..Len(rows) |->
                    [vendorName |-> rows[i].vendorName]
                        @@ riskData(rows[i], RiskLocals(rows[i]))]
    IN successResponse(data, [totalVendors |-> Len(data),
                              riskDistribution |-> riskDistribution(data)])

(***************************************************************************)
(* GET /spending-trends: two queries in a row, with no transaction around  *)
(* them.  invoices[v][m] is the invoice total of vendor v in month m.      *)
(***************************************************************************)
MaxWrites == 1

Databases == [VendorIds -> [TrendMonths -> Amounts]]

RECURSIVE SumAmounts(_, _)
SumAmounts(f, S) ==
    IF S = {} THEN 0
    ELSE LET m == CHOOSE x \in S : TRUE IN f[m] + SumAmounts(f, S \ {m})

\* SUM(i."invoiceTotal") of the vendor's invoices in the window
vendorTotal(db, v) == SumAmounts(db[v], TrendMonths)

\* FROM "Vendor" v JOIN "Invoice" i: the vendors with an invoice in the window
joinedVendors(db) == {v \in VendorIds : \E m \in TrendMonths : db[v][m] > 0}

\* ORDER BY total_spend DESC: equal totals come in any order
topVendorOrders(db) ==
    LET S == joinedVendors(db) IN
    {f \in [1..Cardinality(S) -> S] :
        /\ \A i, j \in DOMAIN f : i # j => f[i] # f[j]
        /\ \A i, j \in DOMAIN f : i < j => vendorTotal(db, f[i]) >= vendorTotal(db, f[j])}

topVendorsList(db, order, n) ==
    SqlLimit([i \in 1..Len(order) |->
                [id |-> order[i],
                 vendorName |-> vendorNameOf[order[i]],
                 total_spend |-> Dec(vendorTotal(db, order[i]) * 100, 100)]], n)

\* topVendorsList.map(v => v.id)
vendorIds(list) == {list[i].id : i \in DOMAIN list}

NameRank(name) == CHOOSE k \in DOMAIN VendorNames : VendorNames[k] = name

\* the orders in which rows of equal vendorName and month can come
TieBreaks ==
    [TrendMonths -> {[v \in VendorIds |-> CASE v = "v1" -> 1 [] v = "v2" -> 2 [] OTHER -> 3],
                     [v \in VendorIds |-> CASE v = "v1" -> 2 [] v = "v2" -> 1 [] OTHER -> 3]}]

\* ORDER BY v."vendorName", month DESC
RowBefore(x, y, tb) ==
    LET nx == NameRank(vendorNameOf[x[1]])
        ny == NameRank(vendorNameOf[y[1]])
    IN \/ nx < ny
       \/ nx = ny /\ x[2] > y[2]
       \/ nx = ny /\ x[2] = y[2] /\ tb[x[2]][x[1]] < tb[y[2]][y[1]]

RECURSIVE OrderRows(_, _)
OrderRows(P, tb) ==
    IF P = {} THEN <<>>
    ELSE LET x == CHOOSE x \in P : \A y \in P \ {x} : RowBefore(x, y, tb)
         IN <<x>> \o OrderRows(P \ {x}, tb)

\* one row per (v.id, month) of the selected vendors; v.id is not selected
spendingTrendsQuery(db, ids, tb) ==
    LET P == {x \in ids \X TrendMonths : db[x[1]][x[2]] > 0}
        ordered == OrderRows(P, tb)
    IN [i \in 1..Len(ordered) |->
            [vendorName |-> vendorNameOf[ordered[i][1]]]
                @@ TrendRecord(ordered[i][2], <<1, db[ordered[i][1]][ordered[i][2]]>>)]

\* the keys of acc in insertion order
RECURSIVE groupNames(_)
groupNames(records) ==
    IF records = <<>> THEN <<>>
    ELSE LET name == records[1].vendorName
         IN <<name>> \o groupNames(SelectSeq(records, LAMBDA r : r.vendorName # name))

\* variant: the metadata counts the entries as totalVendors
trendsResponseWithTotal(records, q) ==
    LET names == groupNames(records)
        data == [k \in 1..Len(names) |->
                    [vendorName |-> names[k]]
                        @@ trendsData(TrendLocals(
                               SelectSeq(records, LAMBDA r : r.vendorName = names[k])))]
    IN successResponse(data, [timeframe |-> q.timeframe \o MonthsSuffix,
                              topVendorsCount |-> parseInt(q.limit),
                              totalVendors |-> Len(data)])

trendsResponse(records, q) ==
    LET names == groupNames(records)
        data == [k \in 1..Len(names) |->
                    [vendorName |-> names[k]]
                        @@ trendsData(TrendLocals(
                               SelectSeq(records, LAMBDA r : r.vendorName = names[k])))]
    IN successResponse(data, [timeframe |-> q.timeframe \o MonthsSuffix,
                              topVendorsCount |-> parseInt(q.limit)])

InitRequest == RowIdle /\ RequestIdle /\ SessionsIdle /\ ProxyIdle /\ ServicesIdle

\* a request arrives: its query parameters, and the data it will be answered from
Receive ==
    /\ stage = "idle"
    /\ \E rt \in Routes : \E l \in Limits(rt) :
        /\ route' = rt
        /\ query' = [limit |-> l, timeframe |-> DefaultTimeframe]
        /\ IF rt \in Scorecards
           THEN /\ \E S \in SUBSET (1..MaxVendors) : qualifying' = QualifyingRows(rt, S)
                /\ invoices' = invoices
           ELSE /\ invoices' \in Databases
                /\ qualifying' = qualifying
    /\ stage' = "query1"
    /\ UNCHANGED <<fetched, trendRows, responses, writes, snapshot, rejected>>
    /\ UNCHANGED <<rowVars, sessions, proxy, serviceVars>>

\* the awaited query rejects: catch (error) { res.status(500).json(...) }
Reject ==
    /\ stage \in {"query1", "query2"}
    /\ \E message \in (IF stage = "query1" /\ ~LimitAccepted(parseInt(query.limit))
                       THEN {NegativeLimitError}
                       ELSE {ConnectionError, ""}) :
        responses' = Append(responses, errorResponse(route, message))
    /\ rejected' = TRUE
    /\ stage' = "done"
    /\ UNCHANGED <<route, query, qualifying, invoices, fetched, trendRows, writes, snapshot>>
    /\ UNCHANGED <<rowVars, sessions, proxy, serviceVars>>

ResolvePerformance ==
    /\ stage = "query1"
    /\ route = "performance-scorecard"
    /\ LimitAccepted(parseInt(query.limit))
    /\ fetched' = SqlLimit(qualifying, parseInt(query.limit))
    /\ responses' = Append(responses, performanceResponse(fetched', query))
    /\ stage' = "done"
    /\ UNCHANGED <<route, query, qualifying, invoices, trendRows, writes, snapshot, rejected>>
    /\ UNCHANGED <<rowVars, sessions, proxy, serviceVars>>

ResolveReliability ==
    /\ stage = "query1"
    /\ route = "payment-reliability"
    /\ LimitAccepted(parseInt(query.limit))
    /\ fetched' = SqlLimit(qualifying, parseInt(query.limit))
    /\ responses' = Append(responses, reliabilityResponse(fetched'))
    /\ stage' = "done"
    /\ UNCHANGED <<route, query, qualifying, invoices, trendRows, writes, snapshot, rejected>>
    /\ UNCHANGED <<rowVars, sessions, proxy, serviceVars>>

ResolveRisk ==
    /\ stage = "query1"
    /\ route = "risk-assessment"
    /\ LimitAccepted(parseInt(query.limit))
    /\ fetched' = SqlLimit(qualifying, parseInt(query.limit))
    /\ responses' = Append(responses, riskResponse(fetched'))
    /\ stage' = "done"
    /\ UNCHANGED <<route, query, qualifying, invoices, trendRows, writes, snapshot, rejected>>
    /\ UNCHANGED <<rowVars, sessions, proxy, serviceVars>>

\* the first query of spending-trends resolves
ResolveTopVendors ==
    /\ stage = "query1"
    /\ route = "spending-trends"
    /\ LimitAccepted(parseInt(query.limit))
    /\ \E order \in topVendorOrders(invoices) :
        fetched' = topVendorsList(invoices, order, parseInt(query.limit))
    /\ snapshot' = invoices
    /\ stage' = "query2"
    /\ UNCHANGED <<route, query, qualifying, invoices, trendRows, responses, writes, rejected>>
    /\ UNCHANGED <<rowVars, sessions, proxy, serviceVars>>

\* another client inserts or deletes invoices of one vendor and month while
\* the handler is between its two queries (a write before the first or after
\* the second query is the same as another database)
WriteInvoice ==
    /\ stage = "query2"
    /\ writes < MaxWrites
    /\ \E v \in VendorIds, m \in TrendMonths, a \in Amounts :
        /\ a # invoices[v][m]
        /\ invoices' = [invoices EXCEPT ![v][m] = a]
    /\ writes' = writes + 1
    /\ UNCHANGED <<stage, route, query, qualifying, fetched, trendRows, responses,
                   snapshot, rejected>>
    /\ UNCHANGED <<rowVars, sessions, proxy, serviceVars>>

\* the second query resolves; the rows are grouped, mapped and sent
ResolveTrends ==
    /\ stage = "query2"
    /\ \E tb \in TieBreaks :
        trendRows' = spendingTrendsQuery(invoices, vendorIds(fetched), tb)
    /\ responses' = Append(responses, trendsResponse(trendRows', query))
    /\ stage' = "done"
    /\ UNCHANGED <<route, query, qualifying, invoices, fetched, writes, snapshot, rejected>>
    /\ UNCHANGED <<rowVars, sessions, proxy, serviceVars>>

NextRequest ==
    \/ Receive
    \/ Reject
    \/ ResolvePerformance
    \/ ResolveReliability
    \/ ResolveRisk
    \/ ResolveTopVendors
    \/ WriteInvoice
    \/ ResolveTrends

SpecRequest == InitRequest /\ [][NextRequest]_vars

(***************************************************************************)
(* Concurrent scoring requests: every invocation of a scorecard handler    *)
(* has its own constants; a handler runs up to its await, other handlers   *)
(* run meanwhile, and when its query resolves it maps the rows and answers *)
(* without yielding.                                                       *)
(***************************************************************************)
SessionLimits(rt) == {DefaultLimit(rt), <<"1">>}

SessionTimeframes(rt) ==
    IF rt = "performance-scorecard" THEN {DefaultTimeframe, <<"6">>} ELSE {DefaultTimeframe}

scoringResponse(rt, rows, q) ==
    CASE rt = "performance-scorecard" -> performanceResponse(rows, q)
      [] rt = "payment-reliability" -> reliabilityResponse(rows)
      [] OTHER -> riskResponse(rows)

\* variant: the rows are kept in one module-level variable per route, which
\* every invocation of the route reads
fetchedRowsShared(ss, r) ==
    LET holders == {q \in Requests : "rows" \in DOMAIN ss[q] /\ ss[q].route = ss[r].route}
    IN ss[CHOOSE q \in holders : \A p \in holders : ss[q].order <= ss[p].order].rows

\* const vendorPerformance = await prisma.$queryRaw`...` (a constant of the
\* invocation)
fetchedRows(ss, r) == ss[r].rows

InitConcurrent == RowIdle /\ RequestIdle /\ SessionsIdle /\ ProxyIdle /\ ServicesIdle

\* request r arrives and its handler runs up to the await of its query
ReceiveSession(r) ==
    /\ sessions[r].pc = "idle"
    /\ \E rt \in Scorecards : \E l \in SessionLimits(rt), tf \in SessionTimeframes(rt) :
        sessions' = [sessions EXCEPT ![r] =
                        [pc |-> "awaiting", route |-> rt,
                         query |-> [limit |-> l, timeframe |-> tf]]]
    /\ UNCHANGED <<rowVars, requestVars, proxy, serviceVars>>

\* the query of request r resolves: the rows are mapped and the response is sent
\* (order: the position of the response among those sent so far)
ResolveSession(r) ==
    /\ sessions[r].pc = "awaiting"
    /\ \E S \in SUBSET (1..MaxVendors) :
        LET s == sessions[r]
            rows == SqlLimit(QualifyingRows(s.route, S), parseInt(s.query.limit))
            order == Cardinality({q \in Requests : sessions[q].pc = "responded"}) + 1
            ss == [sessions EXCEPT ![r] =
                      [pc |-> "responded", route |-> s.route, query |-> s.query,
                       rows |-> rows, order |-> order]]
        IN sessions' = [ss EXCEPT ![r] =
                           ss[r] @@ [response |->
                               scoringResponse(s.route, fetchedRows(ss, r), s.query)]]
    /\ UNCHANGED <<rowVars, requestVars, proxy, serviceVars>>

NextConcurrent ==
    \/ \E r \in Requests : ReceiveSession(r)
    \/ \E r \in Requests : ResolveSession(r)

SpecConcurrent == InitConcurrent /\ [][NextConcurrent]_vars

(***************************************************************************)
(* VannaProxyService.makeRequest: up to retryAttempts HTTP attempts with a *)
(* fixed delay between them.  axios fulfils only with a 2xx status (no     *)
(* validateStatus is configured) and rejects with an error otherwise.      *)
(***************************************************************************)
MaxRetryAttempts == 3

\* an axios error: its code, the status of error.response (0: no response)
\* and its message
AxiosError(c, st, msg) == [code |-> c, status |-> st, message |-> msg]

AxiosErrors ==
    {AxiosError("ECONNREFUSED", 0, "connect ECONNREFUSED"),
     AxiosError("ENOTFOUND", 0, "getaddrinfo ENOTFOUND"),
     AxiosError("ETIMEDOUT", 0, "connect ETIMEDOUT"),
     AxiosError("ECONNABORTED", 0, "timeout of 30000ms exceeded"),
     AxiosError("ERR_BAD_RESPONSE", 500, "Request failed with status code 500"),
     AxiosError("ERR_BAD_RESPONSE", 503, "Request failed with status code 503"),
     AxiosError("ERR_BAD_REQUEST", 429, "Request failed with status code 429"),
     AxiosError("ERR_BAD_REQUEST", 400, "Request failed with status code 400"),
     AxiosError("ERR_BAD_REQUEST", 404, "Request failed with status code 404"),
     AxiosError("ERR_NETWORK", 0, "Network Error"),
     AxiosError("", 0, "socket timeout")}

SuccessStatuses == {200, 204}

\* error.message.includes('timeout')
includesTimeout(msg) == msg \in {"timeout of 30000ms exceeded", "socket timeout"}

\* variant: rate limiting (429) is not retried
isRetryableErrorWithout429(error) ==
    \/ error.code \in {"ECONNREFUSED", "ENOTFOUND", "ETIMEDOUT", "ECONNABORTED"}
    \/ (error.status # 0 /\ error.status >= 500)
    \/ includesTimeout(error.message)

isRetryableError(error) ==
    \/ error.code \in {"ECONNREFUSED", "ENOTFOUND", "ETIMEDOUT", "ECONNABORTED"}
    \/ (error.status # 0 /\ error.status >= 500)
    \/ (error.status # 0 /\ error.status = 429)
    \/ includesTimeout(error.message)

\* variant: compared with the attempt after the last one
isLastAttemptOffByOne(p) == p.attempt = p.retryAttempts + 1

isLastAttempt(p) == p.attempt = p.retryAttempts

ExhaustedError == AxiosError("", 0, "All retry attempts exhausted")

\* this.retryAttempts = parseInt(process.env.VANNA_RETRY_ATTEMPTS || '3')
InitProxy ==
    /\ RowIdle /\ RequestIdle /\ SessionsIdle /\ ServicesIdle
    /\ proxy \in {[retryAttempts |-> n, attempt |-> 0, pc |-> "idle", log |-> <<>>,
                   delays |-> 0, result |-> Unused] : n \in 0..MaxRetryAttempts}

\* makeRequest is called: for (let attempt = 1; ...
MakeRequest ==
    /\ proxy.pc = "idle"
    /\ proxy' = [proxy EXCEPT !.pc = "loop", !.attempt = 1]
    /\ UNCHANGED <<rowVars, requestVars, sessions, serviceVars>>

\* attempt <= this.retryAttempts: await axios(config)
SendAttempt ==
    /\ proxy.pc = "loop"
    /\ proxy.attempt <= proxy.retryAttempts
    /\ proxy' = [proxy EXCEPT !.pc = "awaiting"]
    /\ UNCHANGED <<rowVars, requestVars, sessions, serviceVars>>

\* the loop ends without an attempt left: throw new Error('All retry attempts exhausted')
Exhausted ==
    /\ proxy.pc = "loop"
    /\ proxy.attempt > proxy.retryAttempts
    /\ proxy' = [proxy EXCEPT !.pc = "thrown", !.result = ExhaustedError]
    /\ UNCHANGED <<rowVars, requestVars, sessions, serviceVars>>

\* axios fulfils: return response.data
AxiosFulfilled ==
    /\ proxy.pc = "awaiting"
    /\ \E st \in SuccessStatuses :
        LET data == <<"data", proxy.attempt, st>> IN
        proxy' = [proxy EXCEPT !.pc = "returned",
                               !.log = Append(@, [ok |-> TRUE, data |-> data]),
                               !.result = data]
    /\ UNCHANGED <<rowVars, requestVars, sessions, serviceVars>>

\* axios rejects: retry after the delay, or throw the error
AxiosRejected ==
    /\ proxy.pc = "awaiting"
    /\ \E error \in AxiosErrors :
        IF isRetryableError(error) /\ ~isLastAttempt(proxy)
        THEN proxy' = [proxy EXCEPT !.pc = "delaying",
                                    !.log = Append(@, [ok |-> FALSE, error |-> error]),
                                    !.delays = @ + 1]
        ELSE proxy' = [proxy EXCEPT !.pc = "thrown",
                                    !.log = Append(@, [ok |-> FALSE, error |-> error]),
                                    !.result = error]
    /\ UNCHANGED <<rowVars, requestVars, sessions, serviceVars>>

\* the delay has passed: continue with attempt++
DelayElapsed ==
    /\ proxy.pc = "delaying"
    /\ proxy' = [proxy EXCEPT !.pc = "loop", !.attempt = @ + 1]
    /\ UNCHANGED <<rowVars, requestVars, sessions, serviceVars>>

NextProxy ==
    \/ MakeRequest
    \/ SendAttempt
    \/ Exhausted
    \/ AxiosFulfilled
    \/ AxiosRejected
    \/ DelayElapsed

\* axios settles within its timeout and the delay timer fires
SpecProxy == InitProxy /\ [][NextProxy]_vars /\ WF_vars(NextProxy)

(***************************************************************************)
(* POST /chat/batch: ChatController.processBatchQueries validates the      *)
(* body and awaits VannaProxyService.processBatchQueries, which awaits     *)
(* processQuery for one query after the other.                             *)
(***************************************************************************)
MaxBatchLength == 11

\* queries.length > 10
BatchLimit == 10

Questions == {"qa", "qb"}

RECURSIVE SeqsUpTo(_, _)
SeqsUpTo(S, n) ==
    IF n = 0 THEN {<<>>}
    ELSE LET shorter == SeqsUpTo(S, n - 1)
         IN shorter \cup {Append(q, x) : q \in {t \in shorter : Len(t) = n - 1}, x \in S}

\* req.body.queries: an array of queries, or something that is no array
BatchBodies ==
    {[isArray |-> FALSE, queries |-> <<>>]}
        \cup {[isArray |-> TRUE, queries |-> q] : q \in SeqsUpTo(Questions, MaxBatchLength)}

\* the answer of the AI service to a question
AnswerTo(question) == [success |-> TRUE, question |-> question]

\* errors thrown by makeRequest: an HTTP error response, or no response
QueryErrors ==
    {[status |-> 400, request |-> TRUE, message |-> <<"Request failed with status code 400">>],
     [status |-> 503, request |-> TRUE, message |-> <<"Request failed with status code 503">>],
     [status |-> 0, request |-> TRUE, message |-> <<"connect ECONNREFUSED">>]}

handleError(error, context) ==
    [status |-> 0,
     request |-> FALSE,
     message |-> IF error.status # 0 THEN <<context, ": HTTP ", error.status>>
                 ELSE IF error.request THEN <<context, ": Network error - ">> \o error.message
                 ELSE <<context, ": ">> \o error.message,
     statusCode |-> IF error.status # 0 THEN error.status ELSE 500]

\* the error thrown by VannaProxyService.processBatchQueries when
\* processQuery throws for a query
batchError(error) ==
    handleError(handleError(error, "Query processing failed"),
                "Batch query processing failed")

InitBatch ==
    /\ RowIdle /\ RequestIdle /\ SessionsIdle /\ ProxyIdle
    /\ chat = Unused /\ listing = Unused /\ outflow = Unused
    /\ batch = [pc |-> "idle", isArray |-> FALSE, queries |-> <<>>, i |-> 0, results |-> <<>>,
                calls |-> <<>>, response |-> Unused]

\* Array.isArray(queries) && queries.length !== 0 && !(queries.length > 10)
batchAccepted(body) ==
    /\ body.isArray
    /\ Len(body.queries) # 0
    /\ ~(Len(body.queries) > BatchLimit)

\* the body fails validation: 400
RejectBatch ==
    /\ batch.pc = "idle"
    /\ \E body \in BatchBodies :
        /\ ~batchAccepted(body)
        /\ batch' = [batch EXCEPT
              !.pc = "done",
              !.isArray = body.isArray,
              !.queries = body.queries,
              !.response =
                 [status |-> 400,
                  body |-> [success |-> FALSE,
                            error |-> IF ~body.isArray \/ Len(body.queries) = 0
                                      THEN "Queries array is required and must not be empty"
                                      ELSE "Maximum 10 queries allowed per batch"]]]
    /\ UNCHANGED <<analyticsVars, proxy, chat, listing, outflow>>

\* the body is accepted: vannaProxy.processBatchQueries(queries) starts its loop
AcceptBatch ==
    /\ batch.pc = "idle"
    /\ \E body \in BatchBodies :
        /\ batchAccepted(body)
        /\ batch' = [batch EXCEPT !.pc = "loop", !.isArray = body.isArray,
                                  !.queries = body.queries, !.i = 1]
    /\ UNCHANGED <<analyticsVars, proxy, chat, listing, outflow>>

\* await this.processQuery(request): the query is sent to the AI service
SendQuery ==
    /\ batch.pc = "loop"
    /\ batch.i <= Len(batch.queries)
    /\ batch' = [batch EXCEPT !.pc = "awaiting",
                              !.calls = Append(@, <<"send", batch.i>>)]
    /\ UNCHANGED <<analyticsVars, proxy, chat, listing, outflow>>

\* processQuery returns: results.push(result)
QueryReturns ==
    /\ batch.pc = "awaiting"
    /\ batch' = [batch EXCEPT !.pc = "loop",
                              !.calls = Append(@, <<"return", batch.i>>),
                              !.results = Append(@, AnswerTo(batch.queries[batch.i])),
                              !.i = @ + 1]
    /\ UNCHANGED <<analyticsVars, proxy, chat, listing, outflow>>

\* variant: a query that throws is skipped and the loop goes on
QueryThrowsAndContinues ==
    /\ batch.pc = "awaiting"
    /\ batch' = [batch EXCEPT !.pc = "loop",
                              !.calls = Append(@, <<"throw", batch.i>>),
                              !.i = @ + 1]
    /\ UNCHANGED <<analyticsVars, proxy, chat, listing, outflow>>

\* processQuery throws: both catch blocks run and the controller answers
\* with error.statusCode || 500
QueryThrows ==
    /\ batch.pc = "awaiting"
    /\ \E error \in QueryErrors :
        LET thrown == batchError(error) IN
        batch' = [batch EXCEPT
            !.pc = "done",
            !.calls = Append(@, <<"throw", batch.i>>),
            !.response = [status |-> thrown.statusCode,
                          body |-> [success |-> FALSE, error |-> thrown.message]]]
    /\ UNCHANGED <<analyticsVars, proxy, chat, listing, outflow>>

\* the loop is through: res.json({ success: true, results, batch_size })
BatchCompletes ==
    /\ batch.pc = "loop"
    /\ batch.i > Len(batch.queries)
    /\ batch' = [batch EXCEPT
          !.pc = "done",
          !.response = [status |-> 200,
                        body |-> [success |-> TRUE, results |-> batch.results,
                                  batch_size |-> Len(batch.queries)]]]
    /\ UNCHANGED <<analyticsVars, proxy, chat, listing, outflow>>

NextBatch ==
    \/ RejectBatch
    \/ AcceptBatch
    \/ SendQuery
    \/ QueryReturns
    \/ QueryThrows
    \/ BatchCompletes

\* the AI call settles (makeRequest terminates)
SpecBatch == InitBatch /\ [][NextBatch]_vars /\ WF_vars(NextBatch)

(***************************************************************************)
(* The chat tables and the operations of ChatService on them.  A table is  *)
(* a set of records; "null" stands for NULL and for null / undefined.      *)
(***************************************************************************)
Null == "null"

NewSessionIds == <<"n1", "n2", "n3", "n4">>

NewQueryIds == <<"q1", "q2">>

EmptyDb == [users |-> {}, sessions |-> {}, queries |-> {}, created |-> 0]

ChatSessionRow(id, userId, isActive, lastUsedAt) ==
    [id |-> id, userId |-> userId, isActive |-> isActive, lastUsedAt |-> lastUsedAt]

\* prisma.chatSession.findFirst({ where: { userId, isActive: true },
\* orderBy: { lastUsedAt: 'desc' } }): the ids it can return
findFirstActive(db, userId) ==
    LET active == {s \in db.sessions : s.userId = userId /\ s.isActive}
    IN {s.id : s \in {t \in active : \A u \in active : u.lastUsedAt <= t.lastUsedAt}}

\* prisma.chatSession.findUnique({ where: { id } })
findUnique(db, id) == {s.id : s \in {t \in db.sessions : t.id = id}}

\* prisma.chatSession.update({ where: { id }, data: { lastUsedAt: new Date() } })
updateLastUsed(db, id, now) ==
    [db EXCEPT !.sessions = {IF s.id = id THEN [s EXCEPT !.lastUsedAt = now] ELSE s : s \in @}]

\* prisma.user.upsert({ where: { id: userId }, update: {}, create: {...} })
upsertUser(db, userId) == [db EXCEPT !.users = @ \cup {userId}]

newSessionId(db) == NewSessionIds[db.created + 1]

\* prisma.chatSession.create({ data: { userId, isActive: true, lastUsedAt: new Date() } })
createSession(db, userId, now) ==
    [db EXCEPT !.sessions = @ \cup {ChatSessionRow(newSessionId(db), userId, TRUE, now)},
               !.created = @ + 1]

newQueryId(db) == NewQueryIds[Cardinality(db.queries) + 1]

\* prisma.chatQuery.create({ data: {...} }) of logQuery
createQuery(db, q) == [db EXCEPT !.queries = @ \cup {[id |-> newQueryId(db)] @@ q}]

\* prisma.chatQuery.update({ where: { id }, data: {...} }) of updateQueryResults
updateQuery(db, id, executionSuccess, executionError) ==
    [db EXCEPT !.queries =
        {IF q.id = id
         THEN [q EXCEPT !.executionSuccess = executionSuccess,
                        !.executionError = executionError,
                        !.wasExecuted = TRUE]
         ELSE q : q \in @}]

\* prisma.chatQuery.deleteMany({ where: { sessionId } })
deleteQueriesOf(db, sessionId) ==
    [db EXCEPT !.queries = {q \in @ : q.sessionId # sessionId}]

\* prisma.chatSession.delete({ where: { id } })
deleteSessionRow(db, id) == [db EXCEPT !.sessions = {s \in @ : s.id # id}]

(***************************************************************************)
(* Concurrent calls of ChatService.getOrCreateSession: every await is a    *)
(* step of its own, and the steps of different calls interleave.           *)
(***************************************************************************)
MaxCalls == 2

Callers == 1..MaxCalls

UserIds == {"u1", "u2"}

\* the tables before the calls: no session, an active one or an inactive one
\* of user u1
InitialDbs ==
    {EmptyDb,
     [EmptyDb EXCEPT !.users = {"u1"}, !.sessions = {ChatSessionRow("s1", "u1", TRUE, 1)}],
     [EmptyDb EXCEPT !.users = {"u1"}, !.sessions = {ChatSessionRow("s1", "u1", FALSE, 1)}]}

IdleCall == [pc |-> "idle", userId |-> Null, found |-> Null, result |-> Null]

InitSession ==
    /\ RowIdle /\ RequestIdle /\ SessionsIdle /\ ProxyIdle
    /\ batch = Unused /\ listing = Unused /\ outflow = Unused
    /\ \E db \in InitialDbs :
        chat = [db |-> db, db0 |-> db, now |-> 2, calls |-> [c \in Callers |-> IdleCall]]

\* getOrCreateSession(userId) is called: if (userId) findFirst, else create
CallGetOrCreate(c) ==
    /\ chat.calls[c].pc = "idle"
    /\ \E userId \in UserIds \cup {Null} :
        chat' = [chat EXCEPT !.calls[c].userId = userId,
                             !.calls[c].pc = IF userId = Null THEN "create" ELSE "find"]
    /\ UNCHANGED <<analyticsVars, proxy, batch, listing, outflow>>

\* await prisma.chatSession.findFirst(...) resolves
FindFirstResolves(c) ==
    /\ chat.calls[c].pc = "find"
    /\ LET candidates == findFirstActive(chat.db, chat.calls[c].userId) IN
       IF candidates = {}
       THEN chat' = [chat EXCEPT !.calls[c].pc = "upsert"]
       ELSE \E id \in candidates :
               chat' = [chat EXCEPT !.calls[c].pc = "update", !.calls[c].found = id]
    /\ UNCHANGED <<analyticsVars, proxy, batch, listing, outflow>>

\* return await prisma.chatSession.update(...) resolves
UpdateResolves(c) ==
    /\ chat.calls[c].pc = "update"
    /\ chat' = [chat EXCEPT !.db = updateLastUsed(@, chat.calls[c].found, chat.now),
                            !.now = @ + 1,
                            !.calls[c].pc = "returned",
                            !.calls[c].result = chat.calls[c].found]
    /\ UNCHANGED <<analyticsVars, proxy, batch, listing, outflow>>

\* await prisma.user.upsert(...) resolves
UpsertResolves(c) ==
    /\ chat.calls[c].pc = "upsert"
    /\ chat' = [chat EXCEPT !.db = upsertUser(@, chat.calls[c].userId),
                            !.calls[c].pc = "create"]
    /\ UNCHANGED <<analyticsVars, proxy, batch, listing, outflow>>

\* await prisma.chatSession.create(...) resolves
CreateResolves(c) ==
    /\ chat.calls[c].pc = "create"
    /\ chat' = [chat EXCEPT !.db = createSession(@, chat.calls[c].userId, chat.now),
                            !.now = @ + 1,
                            !.calls[c].pc = "returned",
                            !.calls[c].result = newSessionId(chat.db)]
    /\ UNCHANGED <<analyticsVars, proxy, batch, listing, outflow>>

\* the awaited statement rejects: throw new Error('Failed to manage chat session: ...')
StatementRejects(c) ==
    /\ chat.calls[c].pc \in {"find", "update", "upsert", "create"}
    /\ chat' = [chat EXCEPT !.calls[c].pc = "thrown"]
    /\ UNCHANGED <<analyticsVars, proxy, batch, listing, outflow>>

NextSession ==
    \/ \E c \in Callers : CallGetOrCreate(c)
    \/ \E c \in Callers : FindFirstResolves(c)
    \/ \E c \in Callers : UpdateResolves(c)
    \/ \E c \in Callers : UpsertResolves(c)
    \/ \E c \in Callers : CreateResolves(c)
    \/ \E c \in Callers : StatementRejects(c)

SpecSession == InitSession /\ [][NextSession]_vars

(***************************************************************************)
(* DELETE /chat/sessions/:sessionId: ChatService.deleteSession runs two    *)
(* statements, deleteMany on the queries and delete on the session, each   *)
(* committed on its own; calls of different requests interleave.           *)
(***************************************************************************)
MaxSessionQueries == 2

ChatQueryRow(id, sessionId) ==
    [id |-> id, sessionId |-> sessionId, userId |-> "u1", question |-> <<"q">>,
     wasExecuted |-> TRUE, executionSuccess |-> "true", executionError |-> Null]

\* sessions s1 and s2 of user u1, s1 with n queries and s2 with one
DeleteDb(n) ==
    [EmptyDb EXCEPT
        !.users = {"u1"},
        !.sessions = {ChatSessionRow("s1", "u1", TRUE, 1), ChatSessionRow("s2", "u1", TRUE, 1)},
        !.queries = {ChatQueryRow(<<"s1", k>>, "s1") : k \in 1..n}
                        \cup {ChatQueryRow(<<"s2", 1>>, "s2")}]

\* req.params.sessionId: an existing session or an unknown id
SessionIdParams == {"s1", "s2", "s9"}

IdleDelete ==
    [pc |-> "idle", sessionId |-> Null, result |-> Null, deletedQueries |-> {},
     deletedSessions |-> {}, status |-> 0]

InitDelete ==
    /\ RowIdle /\ RequestIdle /\ SessionsIdle /\ ProxyIdle
    /\ batch = Unused /\ listing = Unused /\ outflow = Unused
    /\ \E n \in 0..MaxSessionQueries :
        chat = [db |-> DeleteDb(n), db0 |-> DeleteDb(n),
                calls |-> [c \in Callers |-> IdleDelete]]

\* the controller calls chatService.deleteSession(sessionId)
CallDelete(c) ==
    /\ chat.calls[c].pc = "idle"
    /\ \E id \in SessionIdParams :
        chat' = [chat EXCEPT !.calls[c].pc = "deleteMany", !.calls[c].sessionId = id]
    /\ UNCHANGED <<analyticsVars, proxy, batch, listing, outflow>>

\* await prisma.chatQuery.deleteMany({ where: { sessionId } }) resolves
DeleteManyResolves(c) ==
    /\ chat.calls[c].pc = "deleteMany"
    /\ chat' = [chat EXCEPT
          !.db = deleteQueriesOf(@, chat.calls[c].sessionId),
          !.calls[c].deletedQueries =
              {q.id : q \in {x \in chat.db.queries : x.sessionId = chat.calls[c].sessionId}},
          !.calls[c].pc = "delete"]
    /\ UNCHANGED <<analyticsVars, proxy, batch, listing, outflow>>

\* await prisma.chatSession.delete({ where: { id } }) resolves: return true
DeleteOneResolves(c) ==
    /\ chat.calls[c].pc = "delete"
    /\ findUnique(chat.db, chat.calls[c].sessionId) # {}
    /\ chat' = [chat EXCEPT
          !.db = deleteSessionRow(@, chat.calls[c].sessionId),
          !.calls[c].deletedSessions = {chat.calls[c].sessionId},
          !.calls[c].result = "true",
          !.calls[c].pc = "returned"]
    /\ UNCHANGED <<analyticsVars, proxy, batch, listing, outflow>>

\* a statement rejects (the record to delete does not exist, or the database
\* fails): catch { return false }
DeleteRejects(c) ==
    /\ chat.calls[c].pc \in {"deleteMany", "delete"}
    /\ chat' = [chat EXCEPT !.calls[c].result = "false", !.calls[c].pc = "returned"]
    /\ UNCHANGED <<analyticsVars, proxy, batch, listing, outflow>>

\* if (!deleted) res.status(404) ... else res.json({ success: true })
RespondDelete(c) ==
    /\ chat.calls[c].pc = "returned"
    /\ chat' = [chat EXCEPT
          !.calls[c].status = IF chat.calls[c].result = "true" THEN 200 ELSE 404,
          !.calls[c].pc = "responded"]
    /\ UNCHANGED <<analyticsVars, proxy, batch, listing, outflow>>

NextDelete ==
    \/ \E c \in Callers : CallDelete(c)
    \/ \E c \in Callers : DeleteManyResolves(c)
    \/ \E c \in Callers : DeleteOneResolves(c)
    \/ \E c \in Callers : DeleteRejects(c)
    \/ \E c \in Callers : RespondDelete(c)

SpecDelete == InitDelete /\ [][NextDelete]_vars

(***************************************************************************)
(* POST /chat/query: ChatController.processQuery.  One request is followed *)
(* through validation, session resolution, the availability check, the AI  *)
(* call, logQuery and the response.                                        *)
(***************************************************************************)
RECURSIVE TrimStart(_)
TrimStart(s) == IF s # <<>> /\ Head(s) = " " THEN TrimStart(Tail(s)) ELSE s

RECURSIVE TrimEnd(_)
TrimEnd(s) ==
    IF s # <<>> /\ s[Len(s)] = " " THEN TrimEnd(SubSeq(s, 1, Len(s) - 1)) ELSE s

\* String.prototype.trim
Trim(s) == TrimEnd(TrimStart(s))

\* req.body.question: its typeof and its characters (the digits of a number)
QuestionValues ==
    {[type |-> "undefined", value |-> <<>>],
     [type |-> "number", value |-> <<"4", "2">>],
     [type |-> "string", value |-> <<>>],
     [type |-> "string", value |-> <<" ", " ">>],
     [type |-> "string", value |-> <<"q", " ">>]}

validFormats == {"json", "csv", "table", "chart_data", "summary"}

\* req.body.format; Null where it is left out (format = 'json')
FormatValues == {Null, "csv", "xml"}

ChatRequests ==
    [question : QuestionValues, format : FormatValues, session_id : {Null, "s1", "s9"},
     user_id : {Null, "u1"}, execute_query : BOOLEAN]

\* !question || typeof question !== 'string' || question.trim().length === 0
questionInvalid(question) ==
    \/ question.type = "undefined"
    \/ (question.type = "string" /\ question.value = <<>>)
    \/ question.type # "string"
    \/ Len(Trim(question.value)) = 0

formatOf(req) == IF req.format = Null THEN "json" ELSE req.format

\* answers of the AI service to POST /query
AiResults ==
    {[success |-> TRUE, sql_query |-> "SELECT 1", resultsSuccess |-> "true", error |-> Null],
     [success |-> TRUE, sql_query |-> "SELECT 1", resultsSuccess |-> "false",
      error |-> "execution failed"],
     [success |-> FALSE, sql_query |-> Null, resultsSuccess |-> Null,
      error |-> "could not generate SQL"]}

UnavailableMessage == "AI service is currently unavailable. Please try again later."

ChatIdle ==
    [pc |-> "idle", req |-> Null, session |-> Null, chatQuery |-> Null, result |-> Null,
     threw |-> FALSE, logFailed |-> FALSE, aiCalls |-> <<>>, response |-> Null, now |-> 2]

InitChat ==
    /\ RowIdle /\ RequestIdle /\ SessionsIdle /\ ProxyIdle
    /\ batch = Unused /\ listing = Unused /\ outflow = Unused
    /\ \E db \in InitialDbs : chat = [db |-> db, db0 |-> db] @@ ChatIdle

chatErrorResponse(status, message) ==
    [status |-> status, body |-> [success |-> FALSE, error |-> message]]

\* a request that fails validation: 400
RejectChatQuery ==
    /\ chat.pc = "idle"
    /\ \E req \in ChatRequests :
        /\ questionInvalid(req.question) \/ formatOf(req) \notin validFormats
        /\ chat' = [chat EXCEPT
              !.req = req,
              !.pc = "done",
              !.response = chatErrorResponse(400,
                  IF questionInvalid(req.question)
                  THEN "Question is required and must be a non-empty string"
                  ELSE "Invalid format. Must be one of: json, csv, table, chart_data, summary")]
    /\ UNCHANGED <<analyticsVars, proxy, batch, listing, outflow>>

\* a valid request: if (session_id) getSession, else if (user_id) getOrCreateSession
AcceptChatQuery ==
    /\ chat.pc = "idle"
    /\ \E req \in ChatRequests :
        /\ ~questionInvalid(req.question)
        /\ formatOf(req) \in validFormats
        /\ chat' = [chat EXCEPT
              !.req = req,
              !.pc = IF req.session_id # Null THEN "getSession"
                     ELSE IF req.user_id # Null THEN "getOrCreate" ELSE "health"]
    /\ UNCHANGED <<analyticsVars, proxy, batch, listing, outflow>>

\* session = await chatService.getSession(session_id): the session, or null
\* when there is none or the lookup fails
GetSessionResolves ==
    /\ chat.pc = "getSession"
    /\ \E found \in findUnique(chat.db, chat.req.session_id) \cup {Null} :
        chat' = [chat EXCEPT !.session = found,
                             !.pc = IF found = Null THEN "getOrCreate" ELSE "health"]
    /\ UNCHANGED <<analyticsVars, proxy, batch, listing, outflow>>

\* session = await chatService.getOrCreateSession(user_id) resolves
GetOrCreateResolves ==
    /\ chat.pc = "getOrCreate"
    /\ LET userId == chat.req.user_id
           candidates == IF userId = Null THEN {} ELSE findFirstActive(chat.db, userId)
       IN IF candidates # {}
          THEN \E id \in candidates :
                  chat' = [chat EXCEPT !.db = updateLastUsed(@, id, chat.now),
                                       !.session = id, !.now = @ + 1, !.pc = "health"]
          ELSE LET db1 == IF userId = Null THEN chat.db ELSE upsertUser(chat.db, userId)
               IN chat' = [chat EXCEPT !.db = createSession(db1, userId, chat.now),
                                       !.session = newSessionId(db1),
                                       !.now = @ + 1, !.pc = "health"]
    /\ UNCHANGED <<analyticsVars, proxy, batch, listing, outflow>>

\* getOrCreateSession throws 'Failed to manage chat session': the outer
\* catch answers 500 (chatQuery is still null)
GetOrCreateThrows ==
    /\ chat.pc = "getOrCreate"
    /\ chat' = [chat EXCEPT
          !.threw = TRUE,
          !.pc = "done",
          !.response = chatErrorResponse(500, "Failed to manage chat session")]
    /\ UNCHANGED <<analyticsVars, proxy, batch, listing, outflow>>

\* vannaProxy.isServiceAvailable() is true: the AI call is started
ServiceAvailable ==
    /\ chat.pc = "health"
    /\ chat' = [chat EXCEPT !.aiCalls = Append(@, "/health"), !.pc = "ai"]
    /\ UNCHANGED <<analyticsVars, proxy, batch, listing, outflow>>

\* vannaProxy.isServiceAvailable() is false: 503
ServiceUnavailable ==
    /\ chat.pc = "health"
    /\ chat' = [chat EXCEPT !.aiCalls = Append(@, "/health"),
                            !.pc = "done",
                            !.response = chatErrorResponse(503, UnavailableMessage)]
    /\ UNCHANGED <<analyticsVars, proxy, batch, listing, outflow>>

\* result = await vannaProxy.processQuery(...) resolves
AiReturns ==
    /\ chat.pc = "ai"
    /\ \E result \in AiResults :
        chat' = [chat EXCEPT !.aiCalls = Append(@, "/query"), !.result = result, !.pc = "log"]
    /\ UNCHANGED <<analyticsVars, proxy, batch, listing, outflow>>

\* vannaProxy.processQuery throws: catch (error) { if (chatQuery) await
\* updateQueryResults(...); res.status(error.statusCode || 500).json(...) }
AiThrows ==
    /\ chat.pc = "ai"
    /\ \E error \in QueryErrors :
        LET thrown == handleError(error, "Query processing failed") IN
        chat' = [chat EXCEPT
            !.aiCalls = Append(@, "/query"),
            !.threw = TRUE,
            !.db = IF chat.chatQuery # Null
                   THEN updateQuery(@, chat.chatQuery, "false", thrown.message)
                   ELSE @,
            !.pc = "done",
            !.response = chatErrorResponse(thrown.statusCode, thrown.message)]
    /\ UNCHANGED <<analyticsVars, proxy, batch, listing, outflow>>

\* the data passed to logQuery and stored by prisma.chatQuery.create
loggedQuery(c) ==
    [sessionId |-> c.session,
     userId |-> c.req.user_id,
     question |-> c.req.question.value,
     wasExecuted |-> c.req.execute_query,
     executionSuccess |->
        IF c.result.success /\ c.req.execute_query /\ c.result.resultsSuccess = "true"
        THEN "true" ELSE Null,
     executionError |-> c.result.error]

\* the body of the 200 response
chatResponse(c, queryId) ==
    [status |-> 200,
     body |-> [success |-> c.result.success,
               sql_query |-> c.result.sql_query,
               error |-> c.result.error,
               metadata |->
                  [service_used |-> "vanna-ai", format_requested |-> formatOf(c.req)]
                    @@ (IF c.session # Null THEN [session_id |-> c.session] ELSE <<>>)
                    @@ (IF queryId # Null THEN [query_id |-> queryId] ELSE <<>>)]]

\* chatQuery = await chatService.logQuery(...) resolves; the response is sent
LogQueryResolves ==
    /\ chat.pc = "log"
    /\ LET db1 == IF chat.req.user_id # Null THEN upsertUser(chat.db, chat.req.user_id)
                  ELSE chat.db
           db2 == createQuery(db1, loggedQuery(chat))
           db3 == IF chat.session # Null THEN updateLastUsed(db2, chat.session, chat.now)
                  ELSE db2
       IN chat' = [chat EXCEPT !.db = db3,
                               !.now = @ + 1,
                               !.chatQuery = newQueryId(db1),
                               !.pc = "done",
                               !.response = chatResponse(chat, newQueryId(db1))]
    /\ UNCHANGED <<analyticsVars, proxy, batch, listing, outflow>>

\* variant: the error of logQuery is not caught where it is thrown
LogQueryThrowsUncaught ==
    /\ chat.pc = "log"
    /\ chat' = [chat EXCEPT !.logFailed = TRUE,
                            !.pc = "done",
                            !.response = chatErrorResponse(500, "Failed to log query")]
    /\ UNCHANGED <<analyticsVars, proxy, batch, listing, outflow>>

\* logQuery throws 'Failed to log query': catch (logError) { console.warn };
\* chatQuery stays null and the response is sent
LogQueryThrows ==
    /\ chat.pc = "log"
    /\ chat' = [chat EXCEPT !.logFailed = TRUE,
                            !.pc = "done",
                            !.response = chatResponse(chat, Null)]
    /\ UNCHANGED <<analyticsVars, proxy, batch, listing, outflow>>

NextChat ==
    \/ RejectChatQuery
    \/ AcceptChatQuery
    \/ GetSessionResolves
    \/ GetOrCreateResolves
    \/ GetOrCreateThrows
    \/ ServiceAvailable
    \/ ServiceUnavailable
    \/ AiReturns
    \/ AiThrows
    \/ LogQueryResolves
    \/ LogQueryThrows

SpecChat == InitChat /\ [][NextChat]_vars

(***************************************************************************)
(* GET /invoices: the status filter of the where clause and the            *)
(* paymentStatus computed for every listed invoice.  Times are integers;   *)
(* the Invoice table is kept in the order of the query (invoiceDate desc). *)
(***************************************************************************)
MaxListedInvoices == 2

MaxInvoicePayments == 1

\* Payment.dueDate is nullable: NoDueDate stands for null
NoDueDate == 0

DueDates == {NoDueDate, 1, 3}

\* new Date() when the where clause is built
currentDate == 2

\* new Date() inside invoices.map: not before the where clause was built
MapTimes == {2, 4}

PaymentLists == SeqsUpTo(DueDates, MaxInvoicePayments)

InvoiceTables == SeqsUpTo(PaymentLists, MaxListedInvoices)

\* req.query.status: absent, the three documented values, or anything else
StatusValues == {Null, "paid", "pending", "overdue", "unknown"}

Pages == {1, 2}

PageLimits == {1, 20}

\* relation filters of the query engine; a comparison with NULL is unknown,
\* so a payment without dueDate neither matches nor contradicts a condition
someRelated(Payments) == Len(Payments) > 0

noneRelated(Payments) == Len(Payments) = 0

noneDueBefore(Payments, date) ==
    ~ \E i \in 1..Len(Payments) : Payments[i] # NoDueDate /\ Payments[i] < date

someDueBefore(Payments, date) ==
    \E i \in 1..Len(Payments) : Payments[i] # NoDueDate /\ Payments[i] < date

everyDueFrom(Payments, date) ==
    ~ \E i \in 1..Len(Payments) : Payments[i] # NoDueDate /\ ~(Payments[i] >= date)

\* whereClause built by the switch on status
whereClause(status, Payments) ==
    CASE status = "paid" -> someRelated(Payments)
      [] status = "pending" ->
            /\ noneRelated(Payments)
            /\ \/ noneDueBefore(Payments, currentDate)
               \/ everyDueFrom(Payments, currentDate)
      [] status = "overdue" ->
            /\ noneRelated(Payments)
            /\ someDueBefore(Payments, currentDate)
      [] OTHER -> TRUE

RECURSIVE filterInvoices(_, _)
filterInvoices(table, status) ==
    IF table = <<>> THEN <<>>
    ELSE IF whereClause(status, Head(table))
         THEN <<Head(table)>> \o filterInvoices(Tail(table), status)
         ELSE filterInvoices(Tail(table), status)

\* skip and take of findMany
pageOf(rows, skip, take) ==
    SubSeq(rows, skip + 1, IF skip + take < Len(rows) THEN skip + take ELSE Len(rows))

isOverdue(Payments, now) ==
    \E i \in 1..Len(Payments) : Payments[i] # NoDueDate /\ Payments[i] < now

paymentStatusOverdueFirst(Payments, now) ==
    IF isOverdue(Payments, now) THEN "overdue"
    ELSE IF Len(Payments) > 0 THEN "paid"
    ELSE "pending"

paymentStatus(Payments, now) ==
    IF Len(Payments) > 0 THEN "paid"
    ELSE IF isOverdue(Payments, now) THEN "overdue"
    ELSE "pending"

formattedInvoices(rows, now) ==
    [i \in 1..Len(rows) |->
        [Payments |-> rows[i],
         paymentsCount |-> Len(rows[i]),
         paymentStatus |-> paymentStatus(rows[i], now)]]

InitListing ==
    /\ RowIdle /\ RequestIdle /\ SessionsIdle /\ ProxyIdle
    /\ batch = Unused /\ chat = Unused /\ outflow = Unused
    /\ \E table \in InvoiceTables :
        listing = [pc |-> "idle", table |-> table, status |-> Null,
                   page |-> 1, limit |-> 20, invoices |-> <<>>,
                   totalCount |-> 0, response |-> [status |-> 0, invoices |-> <<>>]]

\* GET /invoices arrives: pagination and status are read from the query
CallGetInvoices ==
    /\ listing.pc = "idle"
    /\ \E status \in StatusValues : \E page \in Pages : \E limit \in PageLimits :
        listing' = [listing EXCEPT !.pc = "querying", !.status = status,
                                   !.page = page, !.limit = limit]
    /\ UNCHANGED <<analyticsVars, proxy, batch, chat, outflow>>

\* findMany and count resolve
FindInvoicesResolves ==
    /\ listing.pc = "querying"
    /\ LET matching == filterInvoices(listing.table, listing.status)
       IN listing' = [listing EXCEPT
             !.pc = "fetched",
             !.invoices = pageOf(matching, (listing.page - 1) * listing.limit,
                                 listing.limit),
             !.totalCount = Len(matching)]
    /\ UNCHANGED <<analyticsVars, proxy, batch, chat, outflow>>

\* a query rejects: the catch block answers 500
FindInvoicesRejects ==
    /\ listing.pc = "querying"
    /\ listing' = [listing EXCEPT !.pc = "responded",
                                  !.response = [status |-> 500, invoices |-> <<>>]]
    /\ UNCHANGED <<analyticsVars, proxy, batch, chat, outflow>>

\* invoices.map and res.json
RespondInvoices ==
    /\ listing.pc = "fetched"
    /\ \E now \in MapTimes :
        listing' = [listing EXCEPT
            !.pc = "responded",
            !.response = [status |-> 200,
                          invoices |-> formattedInvoices(listing.invoices, now)]]
    /\ UNCHANGED <<analyticsVars, proxy, batch, chat, outflow>>

NextListing ==
    \/ CallGetInvoices
    \/ FindInvoicesResolves
    \/ FindInvoicesRejects
    \/ RespondInvoices

SpecListing == InitListing /\ [][NextListing]_vars

(***************************************************************************)
(* GET /cash-outflow: payments grouped by day and by week.  A Date is the  *)
(* number of hours since 00:00 UTC of a Monday, a date key (YYYY-MM-DD of  *)
(* toISOString) is the number of the UTC day, and the server's time zone   *)
(* is an offset in hours that local getters and setters apply.             *)
(***************************************************************************)
MaxOutflowPayments == 2

HoursPerDay == 24

DaysPerWeek == 7

\* due dates from Monday of the second week to Monday of the third week,
\* early and late in the UTC day
DueInstants == {d * HoursPerDay + h : d \in 7..14, h \in {0, 20}}

\* offset of the server's local time from UTC, in hours
TimeZones == {-5, 0, 5}

OutflowAmounts == {0, 5}

OutflowPayment(id, dueDate, amount) ==
    [id |-> id, dueDate |-> dueDate, amount |-> amount]

\* Payment rows with an invoice total, in dueDate order
OutflowTables ==
    {t \in SeqsUpTo(DueInstants \X OutflowAmounts, MaxOutflowPayments) :
        \A i \in 1..Len(t) - 1 : t[i][1] <= t[i + 1][1]}

\* startDate and endDate of the request: the defaults or a narrower range
DateRanges == {<<0, 100 * HoursPerDay>>, <<8 * HoursPerDay, 13 * HoursPerDay>>}

\* Date.prototype.toISOString().split('T')[0]
dateKeyOf(date) == date \div HoursPerDay

\* Date.prototype.getDay() in local time: 0 is Sunday, 1 is Monday
getDay(date, tz) == (((date + tz) \div HoursPerDay) + 1) % DaysPerWeek

\* weekStart.setDate(dueDate.getDate() - dueDate.getDay() + 1): the local
\* calendar date moves by 1 - getDay() days, the time of day stays
weekStartOf(dueDate, tz) == dueDate + (1 - getDay(dueDate, tz)) * HoursPerDay

weekKeyOf(dueDate, tz) == dateKeyOf(weekStartOf(dueDate, tz))

\* add one payment to the bucket of a key, creating the bucket when missing
addToBucket(buckets, key, payment) ==
    LET old == IF key \in DOMAIN buckets THEN buckets[key]
               ELSE [totalAmount |-> 0, paymentCount |-> 0, payments |-> <<>>]
        new == [totalAmount |-> old.totalAmount + payment.amount,
                paymentCount |-> old.paymentCount + 1,
                payments |-> Append(old.payments, payment.id)]
    IN [k \in DOMAIN buckets \cup {key} |-> IF k = key THEN new ELSE buckets[k]]

\* upcomingPayments.forEach
RECURSIVE groupPayments(_, _, _)
groupPayments(payments, tz, acc) ==
    IF payments = <<>> THEN acc
    ELSE LET payment == Head(payments)
         IN groupPayments(Tail(payments), tz,
              [daily |-> addToBucket(acc.daily, dateKeyOf(payment.dueDate), payment),
               weekly |-> addToBucket(acc.weekly, weekKeyOf(payment.dueDate, tz),
                                      payment)])

\* Object.values(...).sort by date
RECURSIVE sortedKeys(_)
sortedKeys(keys) ==
    IF keys = {} THEN <<>>
    ELSE LET first == CHOOSE k \in keys : \A other \in keys : k <= other
         IN <<first>> \o sortedKeys(keys \ {first})

dailyOutflowArray(daily) ==
    LET keys == sortedKeys(DOMAIN daily)
    IN [i \in 1..Len(keys) |->
          [date |-> keys[i], totalAmount |-> daily[keys[i]].totalAmount,
           paymentCount |-> daily[keys[i]].paymentCount,
           payments |-> daily[keys[i]].payments]]

weeklyOutflowArray(weekly) ==
    LET keys == sortedKeys(DOMAIN weekly)
    IN [i \in 1..Len(keys) |->
          [weekStart |-> keys[i], totalAmount |-> weekly[keys[i]].totalAmount,
           paymentCount |-> weekly[keys[i]].paymentCount]]

RECURSIVE totalOutflow(_)
totalOutflow(payments) ==
    IF payments = <<>> THEN 0
    ELSE Head(payments).amount + totalOutflow(Tail(payments))

\* where: dueDate gte startDate, lte endDate; orderBy dueDate asc
RECURSIVE upcomingPayments(_, _, _, _)
upcomingPayments(table, from, startDate, endDate) ==
    IF from > Len(table) THEN <<>>
    ELSE LET rest == upcomingPayments(table, from + 1, startDate, endDate)
         IN IF table[from][1] >= startDate /\ table[from][1] <= endDate
            THEN <<OutflowPayment(from, table[from][1], table[from][2])>> \o rest
            ELSE rest

NoOutflowResponse ==
    [status |-> 0, totalOutflow |-> 0, totalPayments |-> 0,
     dailyOutflow |-> <<>>, weeklyOutflow |-> <<>>]

InitOutflow ==
    /\ RowIdle /\ RequestIdle /\ SessionsIdle /\ ProxyIdle
    /\ batch = Unused /\ chat = Unused /\ listing = Unused
    /\ \E table \in OutflowTables : \E tz \in TimeZones :
        outflow = [pc |-> "idle", table |-> table, tz |-> tz,
                   startDate |-> 0, endDate |-> 0, payments |-> <<>>,
                   response |-> NoOutflowResponse]

\* GET /cash-outflow arrives with its date range
CallGetCashOutflow ==
    /\ outflow.pc = "idle"
    /\ \E range \in DateRanges :
        outflow' = [outflow EXCEPT !.pc = "querying",
                                   !.startDate = range[1], !.endDate = range[2]]
    /\ UNCHANGED <<analyticsVars, proxy, batch, chat, listing>>

\* prisma.payment.findMany resolves
FindPaymentsResolves ==
    /\ outflow.pc = "querying"
    /\ outflow' = [outflow EXCEPT
          !.pc = "fetched",
          !.payments = upcomingPayments(outflow.table, 1, outflow.startDate,
                                        outflow.endDate)]
    /\ UNCHANGED <<analyticsVars, proxy, batch, chat, listing>>

\* prisma.payment.findMany rejects: the catch block answers 500
FindPaymentsRejects ==
    /\ outflow.pc = "querying"
    /\ outflow' = [outflow EXCEPT !.pc = "responded",
                                  !.response = [NoOutflowResponse EXCEPT !.status = 500]]
    /\ UNCHANGED <<analyticsVars, proxy, batch, chat, listing>>

\* grouping, sorting, totals and res.json
RespondOutflow ==
    /\ outflow.pc = "fetched"
    /\ LET grouped == groupPayments(outflow.payments, outflow.tz,
                                    [daily |-> <<>>, weekly |-> <<>>])
       IN outflow' = [outflow EXCEPT
             !.pc = "responded",
             !.response = [status |-> 200,
                           totalOutflow |-> totalOutflow(outflow.payments),
                           totalPayments |-> Len(outflow.payments),
                           dailyOutflow |-> dailyOutflowArray(grouped.daily),
                           weeklyOutflow |-> weeklyOutflowArray(grouped.weekly)]]
    /\ UNCHANGED <<analyticsVars, proxy, batch, chat, listing>>

NextOutflow ==
    \/ CallGetCashOutflow
    \/ FindPaymentsResolves
    \/ FindPaymentsRejects
    \/ RespondOutflow

SpecOutflow == InitOutflow /\ [][NextOutflow]_vars

(***************************************************************************)
(* Properties of the responses.                                            *)
(***************************************************************************)
Responded(ep) == pc = "responded" /\ endpoint = ep

InRange(x, lo, hi) == Le(Num(lo), x) /\ Le(x, Num(hi))

\* x rounded to the nearest integer is o: o - 1/2 <= x < o + 1/2
IsNearestInteger(o, x) ==
    /\ IsInteger(o)
    /\ Le(Sub(o, Rat(1, 2)), x)
    /\ Lt(x, Add(o, Rat(1, 2)))

\* the row of the documented scenario: 45 invoices, 8 active months, 30.5 days
IsScenarioRow ==
    /\ vendor.invoice_count = 45
    /\ vendor.active_months = 8
    /\ vendor.avg_payment_terms = Dec(305, 10)
    /\ timeframe = DefaultTimeframe

\* C1 (as stated): performanceScore.overall is the rounded mean of the three
\* sub-scores reported in the same performanceScore object, and the scenario
\* row yields consistency 67, volume 90, reliability 100 and overall 86.
C1_OverallIsMeanOfReported ==
    Responded("performance-scorecard") =>
        LET ps == entry.performanceScore IN
        /\ ps.overall = MathRound(Div(Add(Add(ps.consistency, ps.volume), ps.reliability), Num(3)))
        /\ IsScenarioRow =>
            /\ ps.consistency = Num(67)
            /\ ps.volume = Num(90)
            /\ ps.reliability = Num(100)
            /\ ps.overall = Num(86)

\* C1 (amended): performanceScore.overall is the mean of the three sub-scores
\* before they are rounded, rounded to the nearest integer; the object reports
\* each sub-score rounded; the scenario row yields consistency 67, volume 90,
\* reliability 100 and overall 85.
C1_OverallIsMeanOfUnrounded ==
    Responded("performance-scorecard") =>
        LET ps == entry.performanceScore
            mean == Div(Add(Add(locals.consistencyScore, locals.volumeScore),
                            locals.reliabilityScore), Num(3))
        IN
        /\ IsFinite(mean) => IsNearestInteger(ps.overall, mean)
        /\ ~IsFinite(mean) => ps.overall = mean
        /\ IsFinite(locals.consistencyScore) =>
              IsNearestInteger(ps.consistency, locals.consistencyScore)
        /\ IsNearestInteger(ps.volume, locals.volumeScore)
        /\ IsNearestInteger(ps.reliability, locals.reliabilityScore)
        /\ IsScenarioRow =>
            /\ locals.consistencyScore = Rat(200, 3)
            /\ locals.reliabilityScore = Rat(199, 2)
            /\ ps.consistency = Num(67)
            /\ ps.volume = Num(90)
            /\ ps.reliability = Num(100)
            /\ ps.overall = Num(85)

C1_Witness ==
    /\ Responded("performance-scorecard")
    /\ IsScenarioRow
    /\ entry.performanceScore.overall = Num(85)
    /\ entry.performanceScore.consistency = Num(67)

RiskInputsNonNegative ==
    /\ vendor.total_exposure.units >= 0
    /\ vendor.avg_invoice_value.units >= 0
    /\ vendor.invoice_variability.units >= 0
    /\ vendor.late_invoices >= 0 /\ vendor.late_invoices <= vendor.total_invoices
    /\ vendor.overdue_payments >= 0 /\ vendor.overdue_payments <= vendor.total_invoices

\* C2: for a risk row with non-negative exposure, average, variability and
\* counts, each of the four sub-risks lies in [0,100] and riskScores.overall is
\* 0.3*exposure + 0.2*variability + 0.25*timeliness + 0.25*payment rounded to
\* the nearest integer, an integer in [0,100].
C2_RiskScoresBounded ==
    (Responded("risk-assessment") /\ RiskInputsNonNegative) =>
        LET rs == entry.riskScores
            weighted == Div(Add(Add(Add(Mul(Num(30), locals.exposureRisk),
                                        Mul(Num(20), locals.variabilityRisk)),
                                    Mul(Num(25), locals.timelinessRisk)),
                                Mul(Num(25), locals.paymentRisk)), Num(100))
        IN
        /\ \A x \in {locals.exposureRisk, locals.variabilityRisk,
                     locals.timelinessRisk, locals.paymentRisk} : InRange(x, 0, 100)
        /\ \A x \in {rs.exposure, rs.variability, rs.timeliness, rs.payment} :
              IsInteger(x) /\ InRange(x, 0, 100)
        /\ IsNearestInteger(rs.overall, weighted)
        /\ InRange(rs.overall, 0, 100)

C2_Witness ==
    /\ Responded("risk-assessment")
    /\ RiskInputsNonNegative
    /\ 3 * vendor.overdue_payments > vendor.total_invoices
    /\ vendor.total_exposure.units > 1000000
    /\ entry.riskScores.payment = Num(100)
    /\ entry.riskScores.overall = Num(100)

\* C3: riskCategory is determined by riskScores.overall alone: High iff
\* overall > 70, Medium iff 40 < overall <= 70, Low iff overall <= 40; every
\* vendor gets exactly one of the three labels.
C3_RiskCategoryThresholds ==
    Responded("risk-assessment") =>
        LET o == entry.riskScores.overall IN
        /\ IsInteger(o)
        /\ entry.riskCategory \in {"High", "Medium", "Low"}
        /\ entry.riskCategory = "High" <=> o.n > 70
        /\ entry.riskCategory = "Medium" <=> (40 < o.n /\ o.n <= 70)
        /\ entry.riskCategory = "Low" <=> o.n <= 40

C3_Witness ==
    /\ Responded("risk-assessment")
    /\ entry.riskScores.overall = Num(70)
    /\ entry.riskCategory = "Medium"

\* C4: for a raw value x >= 0 and a reference scale s > 0 the normalized
\* sub-score lies in [0,100]: the consistency score (also when activeMonths
\* exceeds the window), the volume score and the exposure risk.
C4_NormalizedInRange ==
    /\ (Responded("performance-scorecard") /\ Gt(parseInt(timeframe), Num(0))) =>
          /\ InRange(locals.consistencyScore, 0, 100)
          /\ InRange(entry.performanceScore.consistency, 0, 100)
    /\ Responded("performance-scorecard") =>
          /\ InRange(locals.volumeScore, 0, 100)
          /\ InRange(entry.performanceScore.volume, 0, 100)
    /\ (Responded("risk-assessment") /\ vendor.total_exposure.units >= 0) =>
          /\ InRange(locals.exposureRisk, 0, 100)
          /\ InRange(entry.riskScores.exposure, 0, 100)

C4_Witness ==
    /\ Responded("performance-scorecard")
    /\ timeframe = DefaultTimeframe
    /\ vendor.active_months = 13
    /\ vendor.invoice_count = 60
    /\ locals.consistencyScore = Num(100)
    /\ locals.volumeScore = Num(100)

\* C5 (as stated): with timeframe = 0 months the consistency sub-score is 0 for
\* every row, and the division by zero surfaces neither in consistency nor in
\* the overall score as 100, Infinity or NaN.
C5_ZeroWindowConsistencyIsZero ==
    (Responded("performance-scorecard") /\ parseInt(timeframe) = Num(0)) =>
        /\ entry.performanceScore.consistency = Num(0)
        /\ locals.consistencyScore = Num(0)
        /\ IsFinite(entry.performanceScore.overall)

\* C6 (as stated): a negative totalExposure gives the exposure sub-risk 0, not
\* a negative number.
C6_NegativeExposureClampsToZero ==
    (Responded("risk-assessment") /\ vendor.total_exposure.units < 0) =>
        /\ locals.exposureRisk = Num(0)
        /\ entry.riskScores.exposure = Num(0)

\* C7 (as stated, taken for requests with a positive window):
\* performanceScore.overall is an integer in [0,100] for every row with
\* invoiceCount >= 1, activeMonths >= 1 and avgPaymentTerms >= 0.
C7_PerformanceOverallInRange ==
    (/\ Responded("performance-scorecard")
     /\ Gt(parseInt(timeframe), Num(0))
     /\ vendor.invoice_count >= 1
     /\ vendor.active_months >= 1
     /\ vendor.avg_payment_terms.units >= 0) =>
        /\ IsInteger(entry.performanceScore.overall)
        /\ InRange(entry.performanceScore.overall, 0, 100)

\* C8: the performance reliability sub-score is 50 when avgPaymentTerms is not
\* greater than 0 and otherwise max(0, 100 - (avgPaymentTerms - 30)); it is
\* never negative, it is 0 from 130 days on, and it has no upper clamp: between
\* 0 and 30 days it exceeds 100 and stays below 130.
C8_ReliabilityFormula ==
    Responded("performance-scorecard") =>
        LET tenths == vendor.avg_payment_terms.units
            r == locals.reliabilityScore
        IN
        /\ vendor.avg_payment_terms.scale = 10
        /\ tenths <= 0 => r = Num(50)
        /\ (tenths > 0 /\ tenths <= 1300) => r = Rat(1300 - tenths, 10)
        /\ tenths >= 1300 => r = Num(0)
        /\ Le(Num(0), r)
        /\ (tenths > 0 /\ tenths < 300) => (Gt(r, Num(100)) /\ Lt(r, Num(130)))

C8_Witness ==
    /\ Responded("performance-scorecard")
    /\ vendor.avg_payment_terms = Dec(5, 10)
    /\ locals.reliabilityScore = Rat(259, 2)
    /\ entry.performanceScore.reliability = Num(130)

\* the reliability score the payment callback reports for a row
ReportedReliability(v) == MathRound(paymentReliabilityScore(paymentOverdueRate(v)))

\* C9: with 0 <= overdueCount <= paymentRecords, overdueRate is
\* overdueCount / paymentRecords * 100 (0 when paymentRecords = 0) and
\* reliabilityScore = round(max(0, 100 - 2 * overdueRate)) is an integer in
\* [0,100], 100 when nothing is overdue, 0 when at least half the records are
\* overdue, and non-increasing in overdueCount.
C9_PaymentReliabilityScore ==
    Responded("payment-reliability") =>
        LET records == vendor.payment_records
            overdue == vendor.overdue_count
            score == entry.reliabilityScore
        IN
        /\ locals.overdueRate = Rat(100 * overdue, records)
        /\ paymentOverdueRate([vendor EXCEPT !.payment_records = 0, !.overdue_count = 0]) = Num(0)
        /\ IsNearestInteger(score, MathMax(Num(0), Sub(Num(100), Rat(200 * overdue, records))))
        /\ InRange(score, 0, 100)
        /\ overdue = 0 => score = Num(100)
        /\ 2 * overdue >= records => score = Num(0)
        /\ \A more \in overdue..records :
              Le(ReportedReliability([vendor EXCEPT !.overdue_count = more]), score)

C9_Witness ==
    /\ Responded("payment-reliability")
    /\ vendor.payment_records = 3
    /\ vendor.overdue_count = 2
    /\ locals.overdueRate = Rat(200, 3)
    /\ entry.reliabilityScore = Num(0)

\* C10: a vendor with at most 3 trend points has an empty previous window and
\* growthRate exactly 0; for every vendor growthRate is a finite number, and it
\* is 0 whenever the previous-window average is not greater than 0.
C10_GrowthRateDefined ==
    Responded("spending-trends") =>
        LET g == entry.summary.growthRate IN
        /\ Len(spendingTrends) <= 3 => (locals.previous = <<>> /\ g = Num(0))
        /\ IsFinite(g)
        /\ ~Gt(locals.previousAvg, Num(0)) => g = Num(0)

C10_Witness ==
    /\ Responded("spending-trends")
    /\ Len(spendingTrends) = 3
    /\ locals.previous = <<>>
    /\ Gt(locals.recentAvg, Num(0))
    /\ entry.summary.growthRate = Num(0)

(***************************************************************************)
(* The trend records of a vendor arrive by descending month, months        *)
(* n, ..., 1: the record of month m is the (n + 1 - m)-th.                 *)
(***************************************************************************)
RecordOfMonth(m) == spendingTrends[Len(spendingTrends) + 1 - m]

PointOfMonth(m) ==
    [month |-> m,
     invoiceCount |-> RecordOfMonth(m).invoice_count,
     monthlySpend |-> Rat(RecordOfMonth(m).monthly_spend.units, RecordOfMonth(m).monthly_spend.scale),
     avgInvoiceValue |-> Rat(RecordOfMonth(m).avg_invoice_value.units,
                             RecordOfMonth(m).avg_invoice_value.scale)]

\* the points of the months lo..hi, ascending
PointsOfMonths(lo, hi) == [i \in 1..(hi - lo + 1) |-> PointOfMonth(lo + i - 1)]

\* the sum of monthly_spend, in hundredths, over the months lo..hi
RECURSIVE SpendCents(_, _)
SpendCents(lo, hi) ==
    IF hi < lo THEN 0 ELSE SpendCents(lo, hi - 1) + RecordOfMonth(hi).monthly_spend.units

RECURSIVE InvoicesOfMonths(_, _)
InvoicesOfMonths(lo, hi) ==
    IF hi < lo THEN 0 ELSE InvoicesOfMonths(lo, hi - 1) + RecordOfMonth(hi).invoice_count

Min2(a, b) == IF a < b THEN a ELSE b
Max2(a, b) == IF a < b THEN b ELSE a

\* r is x rounded to 2 decimals
IsRoundedTo2(r, x) == IsNearestInteger(Mul(r, Num(100)), Mul(x, Num(100)))

\* C11: with n >= 1 points sorted ascending by month, recent is the last
\* min(3, n) points and previous the min(3, max(0, n - 3)) points right before
\* them; when the mean of previous is positive, growthRate is
\* (mean(recent) - mean(previous)) / mean(previous) * 100 rounded to 2 decimals.
C11_GrowthWindows ==
    Responded("spending-trends") =>
        LET n == Len(spendingTrends)
            nRecent == Min2(3, n)
            nPrevious == Min2(3, Max2(0, n - 3))
            meanRecent == Rat(SpendCents(n - nRecent + 1, n), 100 * nRecent)
            meanPrevious == Rat(SpendCents(n - 3 - nPrevious + 1, n - 3), 100 * nPrevious)
        IN
        /\ n >= 1
        /\ entry.trends = PointsOfMonths(1, n)
        /\ locals.recent = PointsOfMonths(n - nRecent + 1, n)
        /\ locals.previous = PointsOfMonths(n - 3 - nPrevious + 1, n - 3)
        /\ (nPrevious > 0 /\ Gt(meanPrevious, Num(0))) =>
              IsRoundedTo2(entry.summary.growthRate,
                           Mul(Div(Sub(meanRecent, meanPrevious), meanPrevious), Num(100)))

C11_Witness ==
    /\ Responded("spending-trends")
    /\ Len(spendingTrends) = 7
    /\ Len(locals.previous) = 3
    /\ locals.previous[1].month = 2
    /\ locals.recent[1].month = 5
    /\ Gt(locals.previousAvg, Num(0))
    /\ entry.summary.growthRate = Rat(-1429, 100)

\* C12: summary.activeMonths is the number of trend points of the entry,
\* summary.totalSpend the sum of their monthlySpend, summary.totalInvoices the
\* sum of their invoiceCount, and summary.avgMonthlySpend is
\* totalSpend / activeMonths rounded to 2 decimals.
C12_TrendSummary ==
    Responded("spending-trends") =>
        LET n == Len(spendingTrends)
            sm == entry.summary
        IN
        /\ sm.activeMonths = n
        /\ sm.activeMonths = Len(entry.trends)
        /\ sm.totalSpend = Rat(SpendCents(1, n), 100)
        /\ sm.totalInvoices = InvoicesOfMonths(1, n)
        /\ IsRoundedTo2(sm.avgMonthlySpend, Rat(SpendCents(1, n), 100 * n))

C12_Witness ==
    /\ Responded("spending-trends")
    /\ Len(spendingTrends) = 3
    /\ entry.summary.totalSpend = Num(100)
    /\ entry.summary.totalInvoices = 5
    /\ entry.summary.avgMonthlySpend = Rat(3333, 100)

ProxyTerminated == proxy.pc \in {"returned", "thrown"}

ProxyBounded ==
    LET attempts == Len(proxy.log) IN
    /\ attempts <= proxy.retryAttempts
    /\ proxy.delays <= proxy.retryAttempts - 1
    /\ proxy.delays <= attempts
    /\ \A i \in 1..(attempts - 1) : ~proxy.log[i].ok
    /\ proxy.pc = "returned" =>
          /\ attempts >= 1
          /\ proxy.log[attempts].ok
          /\ proxy.result = proxy.log[attempts].data
          /\ proxy.delays = attempts - 1
    /\ proxy.pc = "thrown" =>
          /\ attempts >= 1
          /\ ~proxy.log[attempts].ok
          /\ proxy.result = proxy.log[attempts].error
          /\ proxy.delays = attempts - 1

\* C20: a call of makeRequest with retryAttempts >= 1 terminates after at most
\* retryAttempts attempts: it returns the data of the first attempt answered
\* with a 2xx status and attempts nothing further, or throws the error of the
\* attempt that ended it; the delay is awaited only between two attempts, so
\* there are at most retryAttempts - 1 delays.
C20_MakeRequestTerminates ==
    /\ [](proxy.retryAttempts >= 1 => ProxyBounded)
    /\ [](ProxyTerminated => []ProxyTerminated)
    /\ <>ProxyTerminated

C20_Witness ==
    /\ proxy.pc = "returned"
    /\ proxy.retryAttempts = 3
    /\ Len(proxy.log) = 3
    /\ proxy.delays = 2
    /\ proxy.result = <<"data", 3, 200>>

(***************************************************************************)
(* Properties of the handlers at request level (SpecRequest).              *)
(***************************************************************************)
Answered(rt) ==
    /\ stage = "done"
    /\ route = rt
    /\ Len(responses) = 1
    /\ responses[1].body.success

StrictlyAscendingMonths(ts) == \A i, j \in DOMAIN ts : i < j => ts[i].month < ts[j].month

\* C13 (as stated): the spending-trends response has at most topVendors
\* entries, one for each selected vendor id, entries of different vendors are
\* never merged, and each entry has at most one point per month in strictly
\* ascending month order.  Taken for requests without a concurrent write.
C13_OneEntryPerVendorId ==
    (Answered("spending-trends") /\ writes = 0) =>
        LET data == responses[1].body.data IN
        /\ Le(Num(Len(data)), parseInt(query.limit))
        /\ Len(data) = Cardinality(vendorIds(fetched))
        /\ \A k \in DOMAIN data : StrictlyAscendingMonths(data[k].trends)

\* the rows a successful response was computed from are all in its data
CompleteData ==
    LET data == responses[1].body.data IN
    IF route \in Scorecards
    THEN /\ Len(data) = Len(fetched)
         /\ \A i \in DOMAIN data : data[i].vendorName = fetched[i].vendorName
    ELSE Cardinality({x \in (DOMAIN data) \X (DOMAIN trendRows) :
                         x[2] \in DOMAIN data[x[1]].trends}) = Len(trendRows)

\* C14: a request whose query fails (the second query of spending-trends
\* included) is answered with status 500 and a body of exactly success:false,
\* error and timestamp, without data; a request has no response before it is
\* finished and exactly one after, which is either that failure or a success
\* holding the data of every fetched row.
C14_FailureAnswersOnce ==
    /\ Len(responses) = (IF stage = "done" THEN 1 ELSE 0)
    /\ rejected =>
          /\ stage = "done"
          /\ responses[1].status = 500
          /\ DOMAIN responses[1].body = {"success", "error", "timestamp"}
          /\ responses[1].body.success = FALSE
          /\ responses[1].body.error # ""
    /\ (stage = "done" /\ ~rejected) =>
          /\ responses[1].status = 200
          /\ DOMAIN responses[1].body = {"success", "data", "metadata"}
          /\ responses[1].body.success = TRUE
          /\ CompleteData

C14_Witness ==
    /\ rejected
    /\ route = "spending-trends"
    /\ Len(fetched) = 2
    /\ responses = <<errorResponse("spending-trends", "")>>
    /\ responses[1].body.error = "Failed to get spending trends data"

\* the database could not be reached (a failure other than a refused statement)
DatabaseFailed == rejected /\ responses[1].body.error # NegativeLimitError

\* C15 (as stated): a scorecard response has at most limit rows and at most as
\* many as there are qualifying vendors, its rows are in the order of the
\* query, and a limit of zero or less gives a successful response with an
\* empty data array.  Taken for requests whose database is reachable.
C15_LimitBoundsRows ==
    (stage = "done" /\ route \in Scorecards /\ ~DatabaseFailed) =>
        LET n == parseInt(query.limit)
            body == responses[1].body
        IN /\ body.success =>
                /\ Len(body.data) <= Len(qualifying)
                /\ Le(Num(Len(body.data)), MathMax(n, Num(0)))
                /\ \A i \in DOMAIN body.data :
                      body.data[i].vendorName = qualifying[i].vendorName
           /\ Le(n, Num(0)) => (body.success /\ body.data = <<>>)

\* the request was answered from a query result without rows
EmptyResult ==
    /\ stage = "done"
    /\ ~rejected
    /\ IF route \in Scorecards THEN fetched = <<>> ELSE trendRows = <<>>

\* C16 (as stated): when the query returns no rows, each of the four
\* endpoints answers success:true with data = [] and metadata.totalVendors = 0.
C16_EmptyResultHasZeroTotal ==
    EmptyResult =>
        LET body == responses[1].body IN
        /\ responses[1].status = 200
        /\ body.success
        /\ body.data = <<>>
        /\ "totalVendors" \in DOMAIN body.metadata
        /\ body.metadata.totalVendors = 0

\* C16 (amended): when the query returns no rows, each of the four endpoints
\* answers success:true with data = []; the three scorecard endpoints report
\* metadata.totalVendors = 0, and spending-trends reports only timeframe,
\* topVendorsCount and timestamp in its metadata, without totalVendors.
C16_EmptyResultIsSuccess ==
    EmptyResult =>
        LET body == responses[1].body IN
        /\ responses[1].status = 200
        /\ body.success
        /\ body.data = <<>>
        /\ IF route \in Scorecards
           THEN body.metadata.totalVendors = 0
           ELSE DOMAIN body.metadata = {"timeframe", "topVendorsCount", "timestamp"}

C16_Witness ==
    /\ EmptyResult
    /\ route = "spending-trends"
    /\ invoices = NoInvoices
    /\ writes = 0
    /\ responses[1].body.data = <<>>
    /\ responses[1].body.metadata.topVendorsCount = Num(10)

RECURSIVE CountCategory(_, _)
CountCategory(data, c) ==
    IF data = <<>> THEN 0
    ELSE (IF Head(data).riskCategory = c THEN 1 ELSE 0) + CountCategory(Tail(data), c)

\* C17: in every successful risk-assessment response metadata.totalVendors is
\* the length of data, riskDistribution.high, medium and low are the numbers
\* of entries of category High, Medium and Low, and the three add up to
\* totalVendors.
C17_RiskDistributionCounts ==
    Answered("risk-assessment") =>
        LET data == responses[1].body.data
            metadata == responses[1].body.metadata
            dist == metadata.riskDistribution
        IN /\ metadata.totalVendors = Len(data)
           /\ dist.high = CountCategory(data, "High")
           /\ dist.medium = CountCategory(data, "Medium")
           /\ dist.low = CountCategory(data, "Low")
           /\ dist.high + dist.medium + dist.low = metadata.totalVendors

C17_Witness ==
    /\ Answered("risk-assessment")
    /\ Len(responses[1].body.data) = 3
    /\ responses[1].body.metadata.riskDistribution = [high |-> 1, medium |-> 1, low |-> 1]
    /\ responses[1].body.metadata.totalVendors = 3

SelectedNamesDistinct ==
    \A i, j \in DOMAIN fetched : i # j => fetched[i].vendorName # fetched[j].vendorName

\* C18 (as stated): a spending-trends response is computed from one snapshot,
\* also under concurrent inserts and deletes: the vendors returned are the
\* top-N by total spend of the data state their monthly points were read
\* from, and each summary.totalSpend is the total the vendor was ranked by.
\* Taken for selections of vendors with different names.
C18_SingleSnapshot ==
    (Answered("spending-trends") /\ SelectedNamesDistinct) =>
        LET data == responses[1].body.data
            n == parseInt(query.limit)
        IN /\ \E order \in topVendorOrders(invoices) :
                {data[k].vendorName : k \in DOMAIN data}
                    = {r.vendorName : r \in
                          {topVendorsList(invoices, order, n)[i] :
                              i \in DOMAIN topVendorsList(invoices, order, n)}}
           /\ \A k \in DOMAIN data : \E i \in DOMAIN fetched :
                /\ fetched[i].vendorName = data[k].vendorName
                /\ data[k].summary.totalSpend = ToNumber(fetched[i].total_spend)

(***************************************************************************)
(* Properties of concurrent scoring requests (SpecConcurrent).             *)
(***************************************************************************)
SessionResponded(r) == sessions[r].pc = "responded"

ClaimedRetryable(e) ==
    \/ e.code = "ECONNREFUSED" \/ e.code = "ENOTFOUND"
    \/ e.code = "ETIMEDOUT" \/ e.code = "ECONNABORTED"
    \/ e.status >= 500
    \/ e.status = 429
    \/ e.message = "timeout of 30000ms exceeded" \/ e.message = "socket timeout"

\* another attempt comes after attempt i, or is on its way
AttemptFollows(i) == i < Len(proxy.log) \/ proxy.pc \in {"delaying", "loop", "awaiting"}

ProxyRetryClassified ==
    \A i \in DOMAIN proxy.log : ~proxy.log[i].ok =>
        LET e == proxy.log[i].error IN
        /\ AttemptFollows(i) <=> (ClaimedRetryable(e) /\ i # proxy.retryAttempts)
        /\ ~ClaimedRetryable(e) =>
              /\ proxy.pc = "thrown"
              /\ proxy.result = e
              /\ i = Len(proxy.log)
              /\ proxy.delays = i - 1

\* C21: a failed attempt of makeRequest is followed by another attempt exactly
\* when its error is retryable (a network code, a status of 500 or more, 429,
\* or a message containing 'timeout') and it was not the last attempt; an
\* error that is not retryable, such as 400 or 404, is thrown after that
\* attempt without a delay and without a retry.
C21_RetryIffRetryable ==
    /\ []ProxyRetryClassified
    /\ \A k \in 1..MaxRetryAttempts :
          (proxy.pc = "delaying" /\ Len(proxy.log) = k) ~> (Len(proxy.log) = k + 1)

C21_Witness ==
    /\ proxy.pc = "thrown"
    /\ proxy.retryAttempts = 3
    /\ Len(proxy.log) = 2
    /\ proxy.log[1].error.status = 429
    /\ proxy.log[2].error.status = 404
    /\ proxy.delays = 1

(***************************************************************************)
(* Properties of POST /chat/batch (SpecBatch).                             *)
(***************************************************************************)
BatchSequential ==
    /\ \A k \in DOMAIN batch.calls :
          IF k % 2 = 1
          THEN batch.calls[k] = <<"send", (k + 1) \div 2>>
          ELSE /\ batch.calls[k][2] = k \div 2
               /\ batch.calls[k][1] \in {"return", "throw"}
               /\ batch.calls[k][1] = "throw" =>
                     /\ k = Len(batch.calls)
                     /\ batch.pc = "done"
                     /\ ~batch.response.body.success
                     /\ DOMAIN batch.response.body = {"success", "error"}
    /\ Len(batch.calls) <= 2 * Len(batch.queries)
    /\ \A i \in DOMAIN batch.results : batch.results[i] = AnswerTo(batch.queries[i])
    /\ (batch.pc = "done" /\ batch.response.body.success) =>
          /\ batch.response.body.results = batch.results
          /\ Len(batch.results) = Len(batch.queries)
          /\ Len(batch.calls) = 2 * Len(batch.queries)

\* C22: for an accepted batch (a non-empty array of at most 10 queries) the
\* queries are sent one at a time in request order, a query only after the
\* one before it has returned; results[i] is the answer to queries[i]; the
\* first query that fails ends the batch: no later query is sent and the
\* response is an error without results.  Every batch is answered.
C22_BatchSequential ==
    /\ []BatchSequential
    /\ <>(batch.pc = "done")

C22_Witness ==
    /\ batch.pc = "done"
    /\ Len(batch.queries) = 4
    /\ batch.calls = <<<<"send", 1>>, <<"return", 1>>, <<"send", 2>>, <<"return", 2>>,
                       <<"send", 3>>, <<"throw", 3>>>>
    /\ Len(batch.results) = 2
    /\ batch.response.status = 500
    /\ ~batch.response.body.success

(***************************************************************************)
(* Properties of ChatService.getOrCreateSession (SpecSession).             *)
(***************************************************************************)
SessionsCreatedFor(u) ==
    Cardinality({s \in chat.db.sessions : s.userId = u /\ s \notin chat.db0.sessions
                                            /\ \A t \in chat.db0.sessions : t.id # s.id})

HadActiveSession(u) == \E s \in chat.db0.sessions : s.userId = u /\ s.isActive

\* C24 (as stated): for any number of getOrCreateSession calls for the same
\* user, in any interleaving of their database steps, at most one session is
\* created for a user who had none, and none for a user who had an active
\* session.
C24_AtMostOneSessionCreated ==
    \A u \in UserIds :
        /\ SessionsCreatedFor(u) <= 1
        /\ HadActiveSession(u) => SessionsCreatedFor(u) = 0

(***************************************************************************)
(* Properties of ChatService.deleteSession (SpecDelete).                   *)
(***************************************************************************)
\* C25 (as stated): deleteSession is all-or-nothing: when it returns true the
\* session and every ChatQuery referencing it are gone; when it returns false
\* (answered as 404) the call has deleted no ChatQuery and no ChatSession.
C25_DeleteAllOrNothing ==
    \A c \in Callers :
        /\ chat.calls[c].result = "true" =>
              /\ findUnique(chat.db, chat.calls[c].sessionId) = {}
              /\ \A q \in chat.db.queries : q.sessionId # chat.calls[c].sessionId
        /\ chat.calls[c].result = "false" =>
              /\ chat.calls[c].deletedQueries = {}
              /\ chat.calls[c].deletedSessions = {}
        /\ chat.calls[c].pc = "responded" =>
              chat.calls[c].status = (IF chat.calls[c].result = "false" THEN 404 ELSE 200)

(***************************************************************************)
(* Properties of POST /chat/query (SpecChat).                              *)
(***************************************************************************)
ChatDone == chat.pc = "done"

\* the request was refused with 400, or with 503 by the availability check
ChatRefused ==
    /\ ChatDone
    /\ ~chat.threw
    /\ chat.response.status \in {400, 503}

\* C23 (as stated): a POST /chat/query request that is refused (400 for a
\* missing, empty or non-string question or an unsupported format; 503 because
\* the AI service is unavailable) leaves the chat tables unchanged: no session
\* is created or touched, no ChatQuery is logged, and the AI /query endpoint
\* is never called.
C23_RefusedLeavesStateUnchanged ==
    ChatRefused =>
        /\ chat.db = chat.db0
        /\ \A k \in DOMAIN chat.aiCalls : chat.aiCalls[k] # "/query"

AiCallThrew ==
    /\ ChatDone
    /\ chat.threw
    /\ chat.aiCalls # <<>>
    /\ chat.aiCalls[Len(chat.aiCalls)] = "/query"

\* C26 (as stated): when the AI call of a validated request throws, the
\* failure is recorded on the request's ChatQuery record (executionSuccess =
\* false, executionError = the error message, wasExecuted = true) before the
\* error response is sent.
C26_AiFailureIsRecorded ==
    AiCallThrew =>
        \E q \in chat.db.queries :
            /\ q \notin chat.db0.queries
            /\ q.executionSuccess = "false"
            /\ q.executionError = chat.response.body.error
            /\ q.wasExecuted

\* C27: a failure of logQuery never turns the answer of the AI service into
\* an error: when logQuery throws after the AI service answered, the response
\* is 200 with the AI result, and its metadata has no query_id.
C27_LogFailureKeepsAnswer ==
    (ChatDone /\ chat.logFailed) =>
        /\ chat.response.status = 200
        /\ chat.response.body.success = chat.result.success
        /\ chat.response.body.sql_query = chat.result.sql_query
        /\ chat.response.body.error = chat.result.error
        /\ "query_id" \notin DOMAIN chat.response.body.metadata
        /\ chat.db.queries = chat.db0.queries

C27_Witness ==
    /\ ChatDone
    /\ chat.logFailed
    /\ chat.aiCalls = <<"/health", "/query">>
    /\ chat.result.success
    /\ chat.session = "n1"
    /\ chat.response.status = 200
    /\ chat.response.body.metadata.session_id = "n1"

\* C28: in GET /invoices every listed invoice is labelled 'paid' exactly when
\* it has at least one payment and 'pending' otherwise, no invoice is ever
\* labelled 'overdue', and a request with status=overdue lists no invoice.
C28_OverdueUnreachable ==
    /\ listing.pc = "responded" =>
        \A i \in 1..Len(listing.response.invoices) :
            LET invoice == listing.response.invoices[i]
            IN /\ invoice.paymentStatus = "paid" <=> Len(invoice.Payments) >= 1
               /\ invoice.paymentStatus = "pending" <=> Len(invoice.Payments) = 0
               /\ invoice.paymentStatus # "overdue"
    /\ (listing.pc \in {"fetched", "responded"} /\ listing.status = "overdue") =>
        /\ listing.invoices = <<>>
        /\ listing.totalCount = 0
        /\ listing.response.invoices = <<>>

\* an invoice whose only payment is past due is listed and labelled 'paid'
\* next to an invoice without payments
C28_Witness ==
    /\ listing.pc = "responded"
    /\ listing.response.status = 200
    /\ \E i, j \in 1..Len(listing.response.invoices) :
        /\ isOverdue(listing.response.invoices[i].Payments, currentDate)
        /\ listing.response.invoices[i].paymentStatus = "paid"
        /\ listing.response.invoices[j].Payments = <<>>

\* a request with status=overdue answered over a table that holds an invoice
\* with a past-due payment
C28_OverdueRequested ==
    /\ listing.pc = "responded"
    /\ listing.response.status = 200
    /\ listing.status = "overdue"
    /\ \E i \in 1..Len(listing.table) : isOverdue(listing.table[i], currentDate)

\* the weekly bucket of the response that counts the payment: the payment
\* was added to the bucket whose key is the date of its computed week start
isMonday(day) == day % DaysPerWeek = 0

WeekBucketsOf(payment) ==
    {i \in 1..Len(outflow.response.weeklyOutflow) :
        outflow.response.weeklyOutflow[i].weekStart
            = weekKeyOf(payment.dueDate, outflow.tz)}

\* C29: in GET /cash-outflow every payment is counted in the weekly bucket
\* whose weekStart is the Monday on or before its due date, whatever the day
\* of the week of the due date, so the due date lies in
\* [weekStart, weekStart + 6 days].
C29_WeekStartIsMondayOnOrBefore ==
    (outflow.pc = "responded" /\ outflow.response.status = 200) =>
        \A p \in 1..Len(outflow.payments) :
            LET payment == outflow.payments[p]
                dueDay == dateKeyOf(payment.dueDate)
            IN /\ WeekBucketsOf(payment) # {}
               /\ \A i \in WeekBucketsOf(payment) :
                    LET weekStart == outflow.response.weeklyOutflow[i].weekStart
                    IN /\ isMonday(weekStart)
                       /\ weekStart <= dueDay
                       /\ dueDay <= weekStart + 6

\* the same for a server in UTC and due dates from Monday to Saturday
C29_HoldsMondayToSaturdayInUTC ==
    (outflow.pc = "responded" /\ outflow.response.status = 200 /\ outflow.tz = 0) =>
        \A p \in 1..Len(outflow.payments) :
            LET payment == outflow.payments[p]
                dueDay == dateKeyOf(payment.dueDate)
            IN dueDay % DaysPerWeek # 6 =>
                /\ WeekBucketsOf(payment) # {}
                /\ \A i \in WeekBucketsOf(payment) :
                    LET weekStart == outflow.response.weeklyOutflow[i].weekStart
                    IN isMonday(weekStart) /\ weekStart <= dueDay
                       /\ dueDay <= weekStart + 6

\* a Sunday due date on a server in UTC is counted in the week that starts
\* on the following day
C29_SundayCountedInNextWeek ==
    (outflow.pc = "responded" /\ outflow.response.status = 200 /\ outflow.tz = 0) =>
        \A p \in 1..Len(outflow.payments) :
            LET payment == outflow.payments[p]
                dueDay == dateKeyOf(payment.dueDate)
            IN dueDay % DaysPerWeek = 6 =>
                \A i \in WeekBucketsOf(payment) :
                    outflow.response.weeklyOutflow[i].weekStart = dueDay + 1

\* the number of sub-risks among the four that are not zero
NonZeroCount(e, var, t, p) ==
    (IF e # Num(0) THEN 1 ELSE 0) + (IF var # Num(0) THEN 1 ELSE 0)
        + (IF t # Num(0) THEN 1 ELSE 0) + (IF p # Num(0) THEN 1 ELSE 0)

NonZeroSubRisks ==
    NonZeroCount(locals.exposureRisk, locals.variabilityRisk,
                 locals.timelinessRisk, locals.paymentRisk)

NonZeroSubScores ==
    NonZeroCount(entry.riskScores.exposure, entry.riskScores.variability,
                 entry.riskScores.timeliness, entry.riskScores.payment)

\* C30: no risk weight exceeds 0.3, so a vendor with exactly one non-zero
\* sub-risk is 'Low' with overall <= 30, a vendor with at most two non-zero
\* sub-risks is not 'High' and has overall <= 55, and a 'High' vendor has at
\* least three non-zero sub-risks; the same for the rounded sub-scores of the
\* response.
C30_HighNeedsThreeSubRisks ==
    Responded("risk-assessment") =>
        \A n \in {NonZeroSubRisks, NonZeroSubScores} :
            /\ n = 1 => /\ entry.riskCategory = "Low"
                        /\ Le(entry.riskScores.overall, Num(30))
            /\ n <= 2 => /\ entry.riskCategory # "High"
                         /\ Le(entry.riskScores.overall, Num(55))
            /\ entry.riskCategory = "High" => n >= 3

\* exposure and payment risk at 100, the other two at 0: overall 55, Medium
C30_Witness ==
    /\ Responded("risk-assessment")
    /\ NonZeroSubRisks = 2
    /\ locals.exposureRisk = Num(100)
    /\ locals.paymentRisk = Num(100)
    /\ entry.riskScores.overall = Num(55)
    /\ entry.riskCategory = "Medium"

\* the exposure risk alone at 100: overall 30, Low
C30_SingleSubRiskAtMost ==
    /\ Responded("risk-assessment")
    /\ NonZeroSubRisks = 1
    /\ entry.riskScores.overall = Num(30)
    /\ entry.riskCategory = "Low"

\* a High vendor with exactly three non-zero sub-risks
C30_HighWithThree ==
    /\ Responded("risk-assessment")
    /\ NonZeroSubRisks = 3
    /\ entry.riskCategory = "High"

====
